---- MODULE Spec2Model ----
(***************************************************************************)
(* Model of the visual sound mixer: the audio engine of                    *)
(* src/hooks/useAudioEngine.js (per-voice chains kept in nodesRef, the      *)
(* shared reverb chain, the parameter mapping), the MixerField component    *)
(* that drives it from the orb store, SoundOrb's debug readout, and the      *)
(* loudness normalisation of decoded audio.                                 *)
(*                                                                         *)
(* Units.  Time is in milliseconds of the audio clock.  x and y are in      *)
(* tenths (0..10 stands for 0.0..1.0).  Orb size is in pixels.  A voice     *)
(* gain g is the integer g * GainOne, GainOne = 200^3 * 80, which makes     *)
(* (size/200)^3 * compensation exact.  Compensation is in 1/80.             *)
(* Frequencies are in Hz, rounded down.  The reverb wet gain is in 1/100.   *)
(***************************************************************************)
EXTENDS Integers, Sequences, FiniteSets, TLC

\* ---------------------------------------------------------------- bounds
MaxTick == 1        \* the audio clock runs from 0 to MaxTick * TickMs
EngMaxTick == 1     \* the same for the engine called directly
MaxChains == 2      \* chains the engine called directly may build
MaxOrbId == 2       \* orb ids handed out by the store: 1..MaxOrbId
MaxPresetId == 2    \* preset ids handed out by the store: 1..MaxPresetId
MaxBufLen == 3      \* samples in a decoded buffer: 1..MaxBufLen
MaxTasks == 3       \* imports and library loads the Library starts
MaxBars == 2        \* bars the beat clock is asked about: 0..MaxBars - 1
MaxDecay == 200     \* frames are drawn while the held peak is above
                    \* -MaxDecay / 10 dB

TickMs == 2000
OrbIds == 1..MaxOrbId

\* ------------------------------------------------------------- constants
Null == -1                  \* JavaScript null / undefined for a number
GainOne == 640000000        \* gain 1.0
MIN_SIZE == 50
MAX_SIZE == 200
DefaultLpf == 3500
DefaultBpm == 120
DefaultSend == 50

\* fixed nodes of the graph
DEST == -4                  \* ctx.destination
WET == -3                   \* reverb wet gain
CONVOLVER == -2
REV_IN == -1                \* reverb input node
MASTER == 0                 \* master analyser

Min(a, b) == IF a < b THEN a ELSE b
Max(a, b) == IF a > b THEN a ELSE b
Clamp(v, lo, hi) == Max(lo, Min(hi, v))

\* ------------------------------------------------- the parameter mapping
ISqrt(n) == CHOOSE r \in 0..n : r * r <= n /\ (r + 1) * (r + 1) > n

\* 400^(q/4) in 1/100, for q in 0..4 (the exponent t of the code is q/4)
Pow400(q) ==
  CASE q = 0 -> 100
    [] q = 1 -> ISqrt(20 * 10000)
    [] q = 2 -> 2000
    [] q = 3 -> 20 * ISqrt(20 * 10000)
    [] OTHER -> 40000

\* 20 * Math.pow(8000 / 20, t), t = 1 - y/0.4
HpfFreq(y) == (20 * Pow400(4 - y)) \div 100
\* 20000 * Math.pow(50 / 20000, t), t = (y - 0.6)/0.4
LpfFreq(y) == (20000 * 100) \div Pow400(y - 6)

\* compensation in 1/80
getFilterCompensation(y) ==
  IF y >= 4 /\ y <= 6 THEN 80
  ELSE IF y < 4 THEN 80 - (4 - y) * 3
  ELSE 80 + (y - 6) * (y - 6) * 4

\* t * t * t with t = clamp(size / 200, 0, 1), in 1/200^3
BaseVolume(size) == LET t == Clamp(size, 0, 200) IN t * t * t

\* the same target without the ceiling of 1.5
FinalVolumeNoCeiling(y, size, muted, filterEnabled) ==
  LET compensation == IF filterEnabled THEN getFilterCompensation(y) ELSE 80
  IN IF muted THEN 0 ELSE BaseVolume(size) * compensation

\* the same target with the compensation applied whether or not the
\* filter is enabled
FinalVolumeAlwaysCompensated(y, size, muted, filterEnabled) ==
  IF muted THEN 0
  ELSE Min((3 * GainOne) \div 2, BaseVolume(size) * getFilterCompensation(y))

FinalVolume(y, size, muted, filterEnabled) ==
  LET compensation == IF filterEnabled THEN getFilterCompensation(y) ELSE 80
  IN IF muted THEN 0
     ELSE Min((3 * GainOne) \div 2, BaseVolume(size) * compensation)

\* pan in tenths, -10..10
PanValue(x) == Clamp(x * 2 - 10, -10, 10)

\* SoundOrb's debug readout, before the values are formatted as strings:
\* freq in Hz (Null where the readout shows none), pan in tenths, gain in
\* 1/200^3 (baseVol), comp in 1/80
getFilterDebugInfo(x, y, size) ==
  LET t == Clamp(size, 0, MAX_SIZE)
  IN [filterType |-> IF y < 4 THEN "HPF" ELSE IF y > 6 THEN "LPF" ELSE "OFF",
      freq |-> IF y < 4 THEN (20 * Pow400(4 - y)) \div 100
               ELSE IF y > 6 THEN (20000 * 100) \div Pow400(y - 6)
               ELSE Null,
      pan |-> x * 2 - 10,
      gain |-> t * t * t,
      comp |-> IF y < 4 THEN 80 - (4 - y) * 3
               ELSE IF y > 6 THEN 80 + (y - 6) * (y - 6) * 4
               ELSE 80]

\* ------------------------------------------- automation of an AudioParam
\* An AudioParam keeps a timeline of events ordered by time, later
\* insertions after earlier ones with the same time.  tl maps a time to
\* the last event inserted with that time: that event decides what the
\* parameter is set or heading to from that time on.
Ev(op, v) == [op |-> op, v |-> v]
NoTl == [t \in {} |-> Ev("none", 0)]
Insert(tl, t, ev) == [u \in DOMAIN tl \cup {t} |-> IF u = t THEN ev ELSE tl[u]]

\* the value the timeline sets or heads to at time t
ScheduledTarget(a, t) ==
  LET past == {u \in DOMAIN a.tl : u <= t}
  IN IF past = {} THEN a.dflt
     ELSE a.tl[CHOOSE u \in past : \A w \in past : w <= u].v

NoParam == [type |-> "", dflt |-> 0, tl |-> NoTl, q |-> Ev("none", 0)]

\* ------------------------------------------------------------- the state
VARIABLES
  now,                \* ctx.currentTime
  nodesRef,           \* orb id -> chain (the registry of useAudioEngine)
  audio,              \* node -> [kind, out, when, stopped]: the node graph
  auto,               \* node -> [type, dflt, tl, q]: type and automation
  nextNode,           \* next node the audio context creates
  reverbMade,         \* how many reverb chains getReverbSend has built
  mounted,            \* the component using the engine is mounted
  created,            \* history: every chain startSound has registered
  raised,             \* history: an exception escaped a handler
  orbs,               \* store: sequence of orbs
  nextOrbId,          \* store: module counter nextOrbId
  globalMuted,        \* store
  presets,            \* store: preset id -> settings
  activePresetId,     \* store
  nextPresetId,       \* store: module counter nextPresetId
  activeOrbsRef,      \* MixerField: ids the start effect has started
  scheduledStartsRef, \* MixerField: orb id -> scheduled start time
  timers,             \* pending 'clear waiting' timeouts: [orb, due]
  startTime,          \* beat clock reference time, Null before first use
  gone,               \* history: orb id -> time it left the store
  orphanRuns,         \* history: timers whose callback ran after the orb left
  lastOp,             \* history: the last direct call of the engine
  library,            \* Library: items, database, refs and async tasks
  meter               \* MasterMeter: refs, and the last frame drawn

vars == <<now, nodesRef, audio, auto, nextNode, reverbMade, mounted, created,
          raised, orbs, nextOrbId, globalMuted, presets, activePresetId,
          nextPresetId, activeOrbsRef, scheduledStartsRef, timers, startTime,
          gone, orphanRuns, lastOp, library, meter>>

\* The operations below are written over a record holding the mutable
\* state, so that one handler can chain several calls.
World ==
  [nodesRef |-> nodesRef, audio |-> audio, auto |-> auto,
   nextNode |-> nextNode, reverbMade |-> reverbMade, created |-> created,
   raised |-> raised, orbs |-> orbs, nextOrbId |-> nextOrbId,
   globalMuted |-> globalMuted, presets |-> presets,
   activePresetId |-> activePresetId, nextPresetId |-> nextPresetId,
   activeOrbsRef |-> activeOrbsRef,
   scheduledStartsRef |-> scheduledStartsRef, timers |-> timers,
   startTime |-> startTime, gone |-> gone, library |-> library]

Commit(w) ==
  \E v \in {w} :
    /\ nodesRef' = v.nodesRef
    /\ audio' = v.audio
    /\ auto' = v.auto
    /\ nextNode' = v.nextNode
    /\ reverbMade' = v.reverbMade
    /\ created' = v.created
    /\ raised' = v.raised
    /\ orbs' = v.orbs
    /\ nextOrbId' = v.nextOrbId
    /\ globalMuted' = v.globalMuted
    /\ presets' = v.presets
    /\ activePresetId' = v.activePresetId
    /\ nextPresetId' = v.nextPresetId
    /\ activeOrbsRef' = v.activeOrbsRef
    /\ scheduledStartsRef' = v.scheduledStartsRef
    /\ timers' = v.timers
    /\ startTime' = v.startTime
    /\ gone' = v.gone
    /\ library' = v.library
    /\ UNCHANGED meter

Put(f, k, v) == [u \in DOMAIN f \cup {k} |-> IF u = k THEN v ELSE f[u]]
Without(f, k) == [u \in DOMAIN f \ {k} |-> f[u]]

\* ------------------------------------------------------- the audio engine
Node(kind) == [kind |-> kind, out |-> {}, when |-> Null, stopped |-> FALSE]
Connect(au, a, b) == [au EXCEPT ![a].out = @ \cup {b}]

\* AudioParam.setValueAtTime / setTargetAtTime / the value setter
SetValueAtTime(a, v, t) == [a EXCEPT !.tl = Insert(@, t, Ev("setValue", v))]
SetTargetAtTime(a, v, t) == [a EXCEPT !.tl = Insert(@, t, Ev("setTarget", v))]
SetValue(a, v, t) == [a EXCEPT !.tl = Insert(@, t, Ev("set", v))]

getMasterAnalyser(w) ==
  IF MASTER \in DOMAIN w.audio THEN w
  ELSE [w EXCEPT !.audio = Put(@, MASTER, Node("analyser")),
                 !.auto = Put(@, MASTER, NoParam)]

getReverbSend(w, t) ==
  IF REV_IN \in DOMAIN w.audio THEN w
  ELSE
    LET w1 == getMasterAnalyser(w)
        au1 == Put(Put(Put(w1.audio, CONVOLVER, Node("convolver")),
                       WET, Node("gain")), REV_IN, Node("gain"))
        au2 == Connect(Connect(Connect(Connect(au1, REV_IN, CONVOLVER),
                 CONVOLVER, WET), WET, MASTER), MASTER, DEST)
        wet == SetValue([NoParam EXCEPT !.dflt = 100], 0, t)
        inp == SetValue([NoParam EXCEPT !.dflt = 100], 100, t)
    IN [w1 EXCEPT !.audio = au2,
                  !.auto = Put(Put(Put(@, CONVOLVER, NoParam), WET, wet),
                               REV_IN, inp),
                  !.reverbMade = @ + 1]

updateReverbGlobalGain(w, t, enabled, sendLevel) ==
  LET w1 == IF enabled THEN getReverbSend(w, t) ELSE w
      val == IF enabled THEN sendLevel ELSE 0
  IN IF REV_IN \notin DOMAIN w1.audio THEN w1
     ELSE [w1 EXCEPT !.auto[WET] = SetTargetAtTime(@, val, t)]

\* the same update without the tracking of the highpass
updateReverbSendLPFBaseOnly(a, y, t, filterEnabled, baseLpfFreq) ==
  SetTargetAtTime(a, baseLpfFreq, t)

updateReverbSendLPF(a, y, t, filterEnabled, baseLpfFreq) ==
  LET freq == IF filterEnabled /\ y < 4
              THEN Max(baseLpfFreq, (HpfFreq(y) * 13) \div 10)
              ELSE baseLpfFreq
  IN SetTargetAtTime(a, freq, t)

\* the same filter with the bounds of the pass-through band left out of it
applyFilterOpenBand(a, y, t, filterEnabled) ==
  LET q == Ev("setValue", 500)
  IN IF ~filterEnabled
     THEN [SetTargetAtTime(a, 20000, t) EXCEPT !.type = "lowpass", !.q = q]
     ELSE IF y <= 4
     THEN [SetTargetAtTime(a, HpfFreq(y), t) EXCEPT !.type = "highpass", !.q = q]
     ELSE IF y >= 6
     THEN [SetTargetAtTime(a, LpfFreq(y), t) EXCEPT !.type = "lowpass", !.q = q]
     ELSE [SetTargetAtTime(a, 20000, t) EXCEPT !.type = "lowpass", !.q = q]

applyFilter(a, y, t, filterEnabled) ==
  LET q == Ev("setValue", 500)
  IN IF ~filterEnabled
     THEN [SetTargetAtTime(a, 20000, t) EXCEPT !.type = "lowpass", !.q = q]
     ELSE IF y < 4
     THEN [SetTargetAtTime(a, HpfFreq(y), t) EXCEPT !.type = "highpass", !.q = q]
     ELSE IF y > 6
     THEN [SetTargetAtTime(a, LpfFreq(y), t) EXCEPT !.type = "lowpass", !.q = q]
     ELSE [SetTargetAtTime(a, 20000, t) EXCEPT !.type = "lowpass", !.q = q]

\* The try block of stopSound: source.stop() and the six disconnects, in
\* order.  fail = 0: no call throws; fail = k in 1..7: the k-th call
\* throws, the calls before it have taken effect, the rest are skipped.
FailPoints == 0..7
Done(fail, k) == fail = 0 \/ k < fail
Teardown(au, c, fail) ==
  [n \in DOMAIN au |->
     IF n = c.source
     THEN [au[n] EXCEPT !.stopped = @ \/ Done(fail, 1),
                        !.out = IF Done(fail, 2) THEN {} ELSE @]
     ELSE IF n = c.filter /\ Done(fail, 3) THEN [au[n] EXCEPT !.out = {}]
     ELSE IF n = c.gain /\ Done(fail, 4) THEN [au[n] EXCEPT !.out = {}]
     ELSE IF n = c.panner /\ Done(fail, 5) THEN [au[n] EXCEPT !.out = {}]
     ELSE IF n = c.analyser /\ Done(fail, 6) THEN [au[n] EXCEPT !.out = {}]
     ELSE IF n = c.reverbSendLPF /\ Done(fail, 7) THEN [au[n] EXCEPT !.out = {}]
     ELSE au[n]]

\* the nodes of a chain
NodesOf(c) == {c.source, c.filter, c.gain, c.panner, c.analyser, c.reverbSendLPF}

\* nodesRef.delete: the node objects of the chain are no longer reachable
\* from the program, and neither are their parameters
Forget(ao, c) == [n \in DOMAIN ao \ NodesOf(c) |-> ao[n]]

\* stopSound without its try block: the exception escapes and the delete
\* after the block is not reached
stopSoundNoCatch(w, orbId, fail) ==
  IF orbId \notin DOMAIN w.nodesRef THEN w
  ELSE IF fail # 0
  THEN [w EXCEPT !.audio = Teardown(@, w.nodesRef[orbId], fail),
                 !.raised = TRUE]
  ELSE [w EXCEPT !.audio = Teardown(@, w.nodesRef[orbId], fail),
                 !.auto = Forget(@, w.nodesRef[orbId]),
                 !.nodesRef = Without(@, orbId)]

\* stopSound with the delete inside the try block: a call that throws
\* leaves the chain in the registry
stopSoundDeleteInTry(w, orbId, fail) ==
  IF orbId \notin DOMAIN w.nodesRef THEN w
  ELSE IF fail # 0
  THEN [w EXCEPT !.audio = Teardown(@, w.nodesRef[orbId], fail)]
  ELSE [w EXCEPT !.audio = Teardown(@, w.nodesRef[orbId], fail),
                 !.auto = Forget(@, w.nodesRef[orbId]),
                 !.nodesRef = Without(@, orbId)]

stopSound(w, orbId, fail) ==
  IF orbId \notin DOMAIN w.nodesRef THEN w
  ELSE [w EXCEPT !.audio = Teardown(@, w.nodesRef[orbId], fail),
                 !.auto = Forget(@, w.nodesRef[orbId]),
                 !.nodesRef = Without(@, orbId)]

\* the same test without the comparison with the clock
ScheduledAlways(startAt, t) == startAt # Null /\ startAt # 0

\* startAt && startAt > ctx.currentTime
Scheduled(startAt, t) == startAt # Null /\ startAt # 0 /\ startAt > t

\* startSound with the reverb send taken after the gain node
startSoundSendAfterGain(w, t, orbId, x, y, size, muted, startAt, filterEnabled, reverbLpfFreq, fail) ==
  LET w0 == stopSound(w, orbId, fail)
      source == w0.nextNode
      filter == source + 1
      gain == source + 2
      panner == source + 3
      analyser == source + 4
      reverbSendLPF == source + 5
      w1 == getMasterAnalyser(w0)
      au1 == [n \in DOMAIN w1.audio \cup (source..reverbSendLPF) |->
                IF n = source THEN Node("source")
                ELSE IF n = filter THEN Node("filter")
                ELSE IF n = gain THEN Node("gain")
                ELSE IF n = panner THEN Node("panner")
                ELSE IF n = analyser THEN Node("analyser")
                ELSE IF n = reverbSendLPF THEN Node("reverbSendLPF")
                ELSE w1.audio[n]]
      au2 == Connect(Connect(Connect(Connect(Connect(Connect(au1,
               source, filter), filter, gain), gain, panner),
               panner, analyser), analyser, MASTER), MASTER, DEST)
      w2 == getReverbSend([w1 EXCEPT !.audio = au2], t)
      au3 == Connect(Connect(w2.audio, gain, reverbSendLPF),
                     reverbSendLPF, REV_IN)
      lpf0 == [SetValue([NoParam EXCEPT !.dflt = 350], reverbLpfFreq, t)
                 EXCEPT !.type = "lowpass", !.q = Ev("set", 707)]
      lpf == updateReverbSendLPF(lpf0, y, t, filterEnabled, reverbLpfFreq)
      finalVolume == FinalVolume(y, size, muted, filterEnabled)
      pan == SetValueAtTime(NoParam, PanValue(x), t)
      flt == applyFilter([NoParam EXCEPT !.dflt = 350, !.type = "lowpass",
                                         !.q = Ev("none", 1000)],
                         y, t, filterEnabled)
      g0 == [NoParam EXCEPT !.dflt = GainOne]
      gn == IF Scheduled(startAt, t)
            THEN SetValueAtTime(SetValueAtTime(g0, 0, t), finalVolume, startAt)
            ELSE SetValueAtTime(g0, finalVolume, t)
      au4 == [au3 EXCEPT ![source].when =
                IF Scheduled(startAt, t) THEN startAt ELSE t]
      ao == [n \in DOMAIN w2.auto \cup (source..reverbSendLPF) |->
                IF n = filter THEN flt
                ELSE IF n = gain THEN gn
                ELSE IF n = panner THEN pan
                ELSE IF n = reverbSendLPF THEN lpf
                ELSE IF n \in {source, analyser} THEN NoParam
                ELSE w2.auto[n]]
      chain == [source |-> source, gain |-> gain, filter |-> filter,
                panner |-> panner, analyser |-> analyser,
                reverbSendLPF |-> reverbSendLPF, startAt |-> startAt,
                filterEnabled |-> filterEnabled]
  IN [w2 EXCEPT !.audio = au4, !.auto = ao,
                !.nextNode = reverbSendLPF + 1,
                !.nodesRef = Put(w0.nodesRef, orbId, chain),
                !.created = @ \cup {[orb |-> orbId, chain |-> chain]}]

startSound(w, t, orbId, x, y, size, muted, startAt, filterEnabled, reverbLpfFreq, fail) ==
  LET w0 == stopSound(w, orbId, fail)
      source == w0.nextNode
      filter == source + 1
      gain == source + 2
      panner == source + 3
      analyser == source + 4
      reverbSendLPF == source + 5
      w1 == getMasterAnalyser(w0)
      au1 == [n \in DOMAIN w1.audio \cup (source..reverbSendLPF) |->
                IF n = source THEN Node("source")
                ELSE IF n = filter THEN Node("filter")
                ELSE IF n = gain THEN Node("gain")
                ELSE IF n = panner THEN Node("panner")
                ELSE IF n = analyser THEN Node("analyser")
                ELSE IF n = reverbSendLPF THEN Node("reverbSendLPF")
                ELSE w1.audio[n]]
      au2 == Connect(Connect(Connect(Connect(Connect(Connect(au1,
               source, filter), filter, gain), gain, panner),
               panner, analyser), analyser, MASTER), MASTER, DEST)
      w2 == getReverbSend([w1 EXCEPT !.audio = au2], t)
      au3 == Connect(Connect(w2.audio, filter, reverbSendLPF),
                     reverbSendLPF, REV_IN)
      lpf0 == [SetValue([NoParam EXCEPT !.dflt = 350], reverbLpfFreq, t)
                 EXCEPT !.type = "lowpass", !.q = Ev("set", 707)]
      lpf == updateReverbSendLPF(lpf0, y, t, filterEnabled, reverbLpfFreq)
      finalVolume == FinalVolume(y, size, muted, filterEnabled)
      pan == SetValueAtTime(NoParam, PanValue(x), t)
      flt == applyFilter([NoParam EXCEPT !.dflt = 350, !.type = "lowpass",
                                         !.q = Ev("none", 1000)],
                         y, t, filterEnabled)
      g0 == [NoParam EXCEPT !.dflt = GainOne]
      gn == IF Scheduled(startAt, t)
            THEN SetValueAtTime(SetValueAtTime(g0, 0, t), finalVolume, startAt)
            ELSE SetValueAtTime(g0, finalVolume, t)
      au4 == [au3 EXCEPT ![source].when =
                IF Scheduled(startAt, t) THEN startAt ELSE t]
      ao == [n \in DOMAIN w2.auto \cup (source..reverbSendLPF) |->
                IF n = filter THEN flt
                ELSE IF n = gain THEN gn
                ELSE IF n = panner THEN pan
                ELSE IF n = reverbSendLPF THEN lpf
                ELSE IF n \in {source, analyser} THEN NoParam
                ELSE w2.auto[n]]
      chain == [source |-> source, gain |-> gain, filter |-> filter,
                panner |-> panner, analyser |-> analyser,
                reverbSendLPF |-> reverbSendLPF, startAt |-> startAt,
                filterEnabled |-> filterEnabled]
  IN [w2 EXCEPT !.audio = au4, !.auto = ao,
                !.nextNode = reverbSendLPF + 1,
                !.nodesRef = Put(w0.nodesRef, orbId, chain),
                !.created = @ \cup {[orb |-> orbId, chain |-> chain]}]

\* updateSound that builds the chain again instead of steering its nodes
updateSoundRebuild(w, t, orbId, x, y, size, muted, filterEnabled, reverbLpfFreq) ==
  IF orbId \notin DOMAIN w.nodesRef THEN w
  ELSE startSound(w, t, orbId, x, y, size, muted, Null, filterEnabled,
                  reverbLpfFreq, 0)

updateSound(w, t, orbId, x, y, size, muted, filterEnabled, reverbLpfFreq) ==
  IF orbId \notin DOMAIN w.nodesRef THEN w
  ELSE
    LET nodes == w.nodesRef[orbId]
        finalVolume == FinalVolume(y, size, muted, filterEnabled)
    IN [w EXCEPT
          !.auto = [n \in DOMAIN w.auto |->
             IF n = nodes.gain THEN SetTargetAtTime(w.auto[n], finalVolume, t)
             ELSE IF n = nodes.panner
             THEN SetTargetAtTime(w.auto[n], PanValue(x), t)
             ELSE IF n = nodes.filter
             THEN applyFilter(w.auto[n], y, t, filterEnabled)
             ELSE IF n = nodes.reverbSendLPF
             THEN updateReverbSendLPF(w.auto[n], y, t, filterEnabled, reverbLpfFreq)
             ELSE w.auto[n]]]

\* getAmplitude: 0 for an id without a chain, else the RMS of the
\* analyser's time-domain data (rms, in 1/100); reads only
getAmplitude(w, orbId, rms) ==
  IF orbId \notin DOMAIN w.nodesRef THEN 0 ELSE rms

\* getFilterResponse: null for an id without a chain, else the response of
\* the chain's filter node at numPoints frequencies; reads only
getFilterResponse(w, orbId) ==
  IF orbId \notin DOMAIN w.nodesRef THEN "null"
  ELSE [numPoints |-> 200, filter |-> w.nodesRef[orbId].filter]

\* the cleanup of useAudioEngine's unmount effect: fails[id] is the fail
\* point of the try block for the chain of id
RECURSIVE TeardownAll(_, _, _, _)
TeardownAll(au, reg, ids, fails) ==
  IF ids = {} THEN au
  ELSE LET id == CHOOSE i \in ids : \A j \in ids : i <= j
       IN TeardownAll(Teardown(au, reg[id], fails[id]), reg, ids \ {id}, fails)

NoChains == [i \in {} |-> 0]

unmountCleanup(w, fails) ==
  [w EXCEPT !.audio = TeardownAll(@, w.nodesRef, DOMAIN w.nodesRef, fails),
            !.auto = [n \in {m \in DOMAIN w.auto : m <= 0} |-> w.auto[n]],
            !.nodesRef = NoChains]

\* the element of a singleton; {e(v) : v \in {x}} computes x once
The(S) == CHOOSE r \in S : TRUE

\* ------------------------------------------- loudness normalisation
\* Samples are integers in 1/100000 of full scale, powers in the square
\* of that, loudness in 1/10 LUFS, gains in 1/10000.  An AudioBuffer is
\* [length, channels]: channels is a sequence of sample sequences.  The
\* buffers of the model are a few samples long: BlockSize and StepSize
\* are the 0.4 s block and the 0.1 s step scaled to them, and the biquad
\* coefficients are the ones the code computes at 48 kHz, in 1/1000.
NegInf == -1000000          \* -Infinity
TargetLUFS == -300          \* decodeAudio's target of -30 LUFS
BlockSize == 2
StepSize == 1
Shelf == [b0 |-> 1535, b1 |-> -2692, b2 |-> 1198, a1 |-> -1691, a2 |-> 732]
HighPass == [b0 |-> 995, b1 |-> -1990, b2 |-> 995, a1 |-> -1990, a2 |-> 990]

RECURSIVE Biquad(_, _, _, _, _, _, _)
Biquad(c, samples, i, x1, x2, y1, y2) ==
  IF i > Len(samples) THEN <<>>
  ELSE LET x == samples[i]
           y == (c.b0 * x + c.b1 * x1 + c.b2 * x2 - c.a1 * y1 - c.a2 * y2)
                \div 1000
       IN <<y>> \o Biquad(c, samples, i + 1, x, x1, y, y1)

\* writes to arrays of its own: samples is only read
applyKWeighting(samples) ==
  Biquad(HighPass, Biquad(Shelf, samples, 1, 0, 0, 0, 0), 1, 0, 0, 0, 0)

RECURSIVE SumSq(_, _, _)
SumSq(data, from, to) ==
  IF from > to THEN 0 ELSE data[from] * data[from] + SumSq(data, from + 1, to)

Pow10(d) == IF d = 0 THEN 1 ELSE IF d = 1 THEN 10 ELSE IF d = 2 THEN 100 ELSE 1000
\* 1000 * 10^(k/10), k = 1..9
Mant10 == <<1259, 1585, 1995, 2512, 3162, 3981, 5012, 6310, 7943>>
\* floor(10 * log10(p)) for p >= 1
RECURSIVE Db(_)
Db(p) ==
  IF p >= 10000 THEN 10 + Db(p \div 10)
  ELSE LET d == IF p < 10 THEN 0 ELSE IF p < 100 THEN 1
                ELSE IF p < 1000 THEN 2 ELSE 3
       IN 10 * d + Cardinality({k \in 1..9 : Mant10[k] * Pow10(d) <= p * 1000})

\* -0.691 + 10 * log10(power), -Infinity for power 0
Loudness(power) == IF power > 0 THEN 10 * Db(power) - 1007 ELSE NegInf
isFinite(l) == l # NegInf

RECURSIVE SumOver(_, _)
SumOver(f, S) ==
  IF S = {} THEN 0
  ELSE LET s == CHOOSE e \in S : TRUE IN f[s] + SumOver(f, S \ {s})

measureIntegratedLUFS(buf) ==
  LET kWeighted == [ch \in DOMAIN buf.channels |->
                      applyKWeighting(buf.channels[ch])]
      chans == DOMAIN buf.channels
      starts == {s \in 0..buf.length :
                   s % StepSize = 0 /\ s + BlockSize <= buf.length}
      blockPower == [s \in starts |->
                       SumOver([ch \in chans |->
                                  SumSq(kWeighted[ch], s + 1, s + BlockSize)
                                  \div BlockSize], chans)]
      whole == SumOver([ch \in chans |->
                          SumSq(kWeighted[ch], 1, buf.length) \div buf.length],
                       chans)
      gated70 == {s \in starts : Loudness(blockPower[s]) > -700}
      meanPower70 == SumOver(blockPower, gated70) \div Cardinality(gated70)
      relativeThreshold == Loudness(meanPower70) - 100
      gatedRelative == {s \in starts :
                          Loudness(blockPower[s]) > relativeThreshold}
      meanPowerRel == SumOver(blockPower, gatedRelative)
                      \div Cardinality(gatedRelative)
  IN IF starts = {} THEN Loudness(whole)
     ELSE IF gated70 = {} THEN NegInf
     ELSE IF gatedRelative = {} THEN NegInf
     ELSE Loudness(meanPowerRel)

\* the blocks measureIntegratedLUFS cuts a buffer into, by their start,
\* and the power and loudness of each
BlockStarts(buf) ==
  {s \in 0..buf.length : s % StepSize = 0 /\ s + BlockSize <= buf.length}
BlockPower(buf, s) ==
  SumOver([ch \in DOMAIN buf.channels |->
             SumSq(applyKWeighting(buf.channels[ch]), s + 1, s + BlockSize)
             \div BlockSize], DOMAIN buf.channels)
BlockLUFS(buf, s) == Loudness(BlockPower(buf, s))

\* 1000 * 10^(k/20), k = 0..19
Mant20 == <<1000, 1122, 1259, 1413, 1585, 1778, 1995, 2239, 2512, 2818,
            3162, 3548, 3981, 4467, 5012, 5623, 6310, 7079, 7943, 8913>>
\* 1000 * 10^(k/200), k = 0..9
Mant200 == <<1000, 1012, 1023, 1035, 1047, 1059, 1072, 1084, 1096, 1109>>
\* 10^(gainDB / 20) in 1/10000, gainDB in 1/10 dB; beyond -60 dB and
\* +30 dB the value the model keeps is the one at that end
gainLinear(gainDB) ==
  LET t == Clamp(gainDB, -600, 300) + 600
      d == t \div 10
      q == d \div 20
      m == Mant20[(d % 20) + 1] * Mant200[(t % 10) + 1]
  IN IF q < 2 THEN m \div (1000 * Pow10(2 - q))
     ELSE (m \div 1000) * Pow10(q - 2)
\* a clamp whose ceiling is 20 instead of 10
clampedGainWide(gainDB) == Min(Max(gainLinear(gainDB), 100), 200000)
clampedGain(gainDB) == Min(Max(gainLinear(gainDB), 100), 100000)

\* the buffer normalizeLUFS creates and fills: the input scaled by gain
Scaled(audioBuffer, gain) ==
  [length |-> audioBuffer.length,
   channels |-> [ch \in DOMAIN audioBuffer.channels |->
                   [i \in 1..audioBuffer.length |->
                      (audioBuffer.channels[ch][i] * gain) \div 10000]]]
\* the identity of a buffer createBuffer returns
NewBuffer(heap) ==
  CHOOSE n \in 1..(Cardinality(DOMAIN heap) + 1) : n \notin DOMAIN heap

\* what normalizeLUFS does once the loudness is measured and finite: heap
\* after the call, the buffer returned, and the values it logs
Normalized(heap, id, targetLUFS, currentLUFS) ==
  The({[heap |-> Put(heap, NewBuffer(heap), normalizedBuffer),
        ret |-> NewBuffer(heap), currentLUFS |-> currentLUFS,
        gainDB |-> targetLUFS - currentLUFS,
        clampedGain |-> clampedGain(targetLUFS - currentLUFS),
        verifyLUFS |-> measureIntegratedLUFS(normalizedBuffer)] :
         normalizedBuffer \in
           {Scaled(heap[id], clampedGain(targetLUFS - currentLUFS))}})

\* normalizeLUFS without the test of the measured loudness
normalizeLUFSUnchecked(heap, id, targetLUFS) ==
  The({Normalized(heap, id, targetLUFS, currentLUFS) :
         currentLUFS \in {measureIntegratedLUFS(heap[id])}})

\* heap: the AudioBuffer objects that exist, by identity; the result is
\* the heap after the call, the identity of the buffer returned, the
\* loudness that was measured and, when a buffer was made, what is logged
normalizeLUFS(heap, id, targetLUFS) ==
  The({IF ~isFinite(currentLUFS)
       THEN [heap |-> heap, ret |-> id, currentLUFS |-> currentLUFS]
       ELSE Normalized(heap, id, targetLUFS, currentLUFS) :
         currentLUFS \in {measureIntegratedLUFS(heap[id])}})

\* ---------------------------------------------------------- the orb store
createDefaultPreset ==
  [bpm |-> DefaultBpm, quantizeEnabled |-> TRUE, reverbEnabled |-> FALSE,
   reverbSendLevel |-> DefaultSend, reverbLpfFreq |-> DefaultLpf,
   filterEnabled |-> TRUE, libraryItemDbIds |-> <<>>]

ActivePreset(w) == w.presets[w.activePresetId]
OrbIdsOf(os) == {os[i].id : i \in DOMAIN os}
Leave(g, ids, t) == [i \in DOMAIN g \cup ids |-> IF i \in DOMAIN g THEN g[i] ELSE t]

\* addOrb numbering the new orb by its place in the array
addOrbReuse(w, x, y) ==
  [w EXCEPT !.orbs = Append(@, [id |-> Len(w.orbs) + 1, x |-> x, y |-> y,
                                size |-> 100, muted |-> FALSE,
                                waiting |-> FALSE]),
            !.nextOrbId = @ + 1]

addOrb(w, x, y) ==
  [w EXCEPT !.orbs = Append(@, [id |-> w.nextOrbId, x |-> x, y |-> y,
                                size |-> 100, muted |-> FALSE,
                                waiting |-> FALSE]),
            !.nextOrbId = @ + 1]

\* { ...orb, ...updates }
Merge(o, updates) ==
  [k \in DOMAIN o |-> IF k \in DOMAIN updates THEN updates[k] ELSE o[k]]

updateOrb(w, id, updates) ==
  [w EXCEPT !.orbs = [i \in DOMAIN w.orbs |->
                        IF w.orbs[i].id = id THEN Merge(w.orbs[i], updates)
                        ELSE w.orbs[i]]]

toggleMute(w, id) ==
  [w EXCEPT !.orbs = [i \in DOMAIN w.orbs |->
                        IF w.orbs[i].id = id
                        THEN [w.orbs[i] EXCEPT !.muted = ~@]
                        ELSE w.orbs[i]]]

removeOrb(w, id, t) ==
  [w EXCEPT !.orbs = SelectSeq(@, LAMBDA o : o.id # id),
            !.gone = Leave(@, OrbIdsOf(w.orbs) \cap {id}, t)]

\* orbs: [] of createPreset, switchPreset and deletePreset
clearOrbs(w, t) ==
  [w EXCEPT !.orbs = <<>>, !.gone = Leave(@, OrbIdsOf(w.orbs), t)]

\* libraryItems: [] of createPreset, switchPreset and deletePreset
clearLibrary(w) == [w EXCEPT !.library.libraryItems = <<>>]

\* an item carries the name of its file in place of the decoded audio
addToLibrary(w, name, dbId) ==
  [w EXCEPT !.library.libraryItems =
              Append(@, [id |-> w.library.nextLibraryId, name |-> name,
                         dbId |-> dbId]),
            !.library.nextLibraryId = @ + 1]

addDbIdToPreset(w, dbId) ==
  [w EXCEPT !.presets[w.activePresetId].libraryItemDbIds = Append(@, dbId)]

\* { ...p, ...updates } on the active preset
updateActivePreset(w, updates) ==
  [w EXCEPT !.presets = [i \in DOMAIN w.presets |->
                           IF i = w.activePresetId
                           THEN Merge(w.presets[i], updates)
                           ELSE w.presets[i]]]

toggleReverb(w) ==
  updateActivePreset(w, [reverbEnabled |-> ~ActivePreset(w).reverbEnabled])

\* value in 1/100
setReverbSendLevel(w, value) ==
  updateActivePreset(w, [reverbSendLevel |-> Clamp(value, 0, 100)])

toggleGlobalMute(w) == [w EXCEPT !.globalMuted = ~@]

\* ----------------------------------------------------------- beat clock
\* times in ms; barDuration = 60 / bpm * beatsPerBar seconds, a whole
\* number of ms for the tempos of the specifications
\* getNextBarTime without the skip of a bar that is less than 50 ms away
getNextBarTimeNoSkip(st, t, bpm, beatsPerBar) ==
  LET barDuration == (60000 * beatsPerBar) \div bpm
  IN st + (((t - st) \div barDuration) + 1) * barDuration

getNextBarTime(st, t, bpm, beatsPerBar) ==
  LET barDuration == (60000 * beatsPerBar) \div bpm
      elapsed == t - st
      currentBar == elapsed \div barDuration
      nextBarStart == st + (currentBar + 1) * barDuration
  IN IF nextBarStart - t < 50 THEN nextBarStart + barDuration
     ELSE nextBarStart

\* ------------------------------------------------ MixerField's effects
\* the body of the start loop for an orb that is not active yet
\* the body of the start loop without its setTimeout
StartOneNoTimer(w, t, orb, fails) ==
  LET p == ActivePreset(w)
      sch == w.scheduledStartsRef
      startAt == IF orb.id \in DOMAIN sch /\ sch[orb.id] # 0
                 THEN sch[orb.id] ELSE Null
  IN [startSound(w, t, orb.id, orb.x, orb.y, orb.size,
                 orb.muted \/ w.globalMuted, startAt,
                 p.filterEnabled, p.reverbLpfFreq, fails[orb.id])
        EXCEPT !.activeOrbsRef = @ \cup {orb.id}]

StartOne(w, t, orb, fails) ==
  LET p == ActivePreset(w)
      sch == w.scheduledStartsRef
      startAt == IF orb.id \in DOMAIN sch /\ sch[orb.id] # 0
                 THEN sch[orb.id] ELSE Null
  IN [startSound(w, t, orb.id, orb.x, orb.y, orb.size,
                 orb.muted \/ w.globalMuted, startAt,
                 p.filterEnabled, p.reverbLpfFreq, fails[orb.id])
        EXCEPT !.activeOrbsRef = @ \cup {orb.id},
               !.timers = IF startAt # Null
                          THEN @ \cup {[orb |-> orb.id,
                                        due |-> Max(t, startAt)]}
                          ELSE @]

RECURSIVE StartNew(_, _, _, _)
StartNew(w, t, i, fails) ==
  IF i > Len(w.orbs) THEN w
  ELSE IF w.orbs[i].id \in w.activeOrbsRef THEN StartNew(w, t, i + 1, fails)
  ELSE The({StartNew(w1, t, i + 1, fails) :
              w1 \in {StartOne(w, t, w.orbs[i], fails)}})

\* the body of the stop loop
StopOne(w, id, fails) ==
  [stopSound(w, id, fails[id]) EXCEPT
     !.activeOrbsRef = @ \ {id},
     !.scheduledStartsRef = IF id \in DOMAIN @ THEN Without(@, id) ELSE @]

RECURSIVE StopRemoved(_, _, _)
StopRemoved(w, ids, fails) ==
  IF ids = {} THEN w
  ELSE The({StopRemoved(w1, ids \ {id}, fails) :
              id \in {CHOOSE i \in ids : \A j \in ids : i <= j},
              w1 \in {StopOne(w, CHOOSE i \in ids : \A j \in ids : i <= j,
                              fails)}})

StartStopEffect(w, t, fails) ==
  The({StopRemoved(w1, w1.activeOrbsRef \ OrbIdsOf(w1.orbs), fails) :
         w1 \in {StartNew(w, t, 1, fails)}})

RECURSIVE UpdateEffect(_, _, _)
UpdateEffect(w, t, i) ==
  IF i > Len(w.orbs) THEN w
  ELSE The({UpdateEffect(w1, t, i + 1) :
              w1 \in {updateSound(w, t, w.orbs[i].id, w.orbs[i].x,
                                  w.orbs[i].y, w.orbs[i].size,
                                  w.orbs[i].muted \/ w.globalMuted,
                                  ActivePreset(w).filterEnabled,
                                  ActivePreset(w).reverbLpfFreq)}})

\* the reverb effect without the global mute
ReverbEffectUnmuted(w, t) ==
  LET p == ActivePreset(w)
  IN updateReverbGlobalGain(w, t, p.reverbEnabled, p.reverbSendLevel)

ReverbEffect(w, t) ==
  LET p == ActivePreset(w)
  IN updateReverbGlobalGain(w, t, p.reverbEnabled /\ ~w.globalMuted,
                            p.reverbSendLevel)

\* ------------------------------------------------------------ Library
\* An async function in flight is a task: kind, pc (the await it is
\* suspended at, or "done"), and its local variables.
\* loadLibraryForPreset up to its first await
loadLibraryForPreset(w, preset) ==
  IF preset.libraryItemDbIds = <<>> THEN w
  ELSE [w EXCEPT !.library.tasks =
                   Append(@, [kind |-> "load", pc |-> "get",
                              ids |-> preset.libraryItemDbIds,
                              items |-> <<>>, i |-> 1])]

\* Library's effect on [activePresetId, activePreset]
PresetChangeEffect(w) ==
  IF w.library.prevPresetIdRef = w.activePresetId THEN w
  ELSE loadLibraryForPreset(
         clearLibrary([w EXCEPT !.library.prevPresetIdRef =
                                  w.activePresetId]),
         ActivePreset(w))

\* the loop of an async function moves to its next element, or ends
Advance(task, len) ==
  [task EXCEPT !.i = @ + 1,
               !.pc = IF task.i + 1 > len THEN "done" ELSE "decode"]
\* a catch placed around the loop instead of inside it
ImportCatchOutside(task) ==
  [task EXCEPT !.results = Append(@, Null), !.pc = "done"]
\* the catch block of handleFileImport: the error is logged and the loop
\* goes on
ImportCatch(task) ==
  Advance([task EXCEPT !.results = Append(@, Null)], Len(task.files))

\* the start/stop effect followed by the update effect
OrbEffects(w, t, fails) ==
  The({UpdateEffect(w1, t, 1) : w1 \in {StartStopEffect(w, t, fails)}})

\* The effects React runs after a handler changed the store: w0 is the
\* state the handler started from, orbsChanged says that the handler
\* replaced the orbs array.
Effects(w0, w, t, orbsChanged, fails) ==
  LET p0 == ActivePreset(w0)
      p == ActivePreset(w)
      revDeps == \/ p0.reverbEnabled # p.reverbEnabled
                 \/ p0.reverbSendLevel # p.reverbSendLevel
                 \/ w0.globalMuted # w.globalMuted
      orbDeps == \/ orbsChanged
                 \/ w0.globalMuted # w.globalMuted
                 \/ p0.filterEnabled # p.filterEnabled
                 \/ p0.reverbLpfFreq # p.reverbLpfFreq
  IN The({PresetChangeEffect(IF orbDeps THEN OrbEffects(w1, t, fails)
                              ELSE w1) :
            w1 \in {IF revDeps THEN ReverbEffect(w, t) ELSE w}})

\* a handler has left the store and the refs as in w: the effects run and
\* the result becomes the next state
Render(w, orbsChanged, fails) ==
  \E w1 \in {w} :
    \E w2 \in {Effects(World, w1, now, orbsChanged, fails)} : Commit(w2)

\* ------------------------------------------------------------------ Init
NoMap == [i \in {} |-> 0]
\* a call of the engine: ret is what it returned (Null: nothing)
Op(op, id, had, fail) ==
  [op |-> op, id |-> id, had |-> had, fail |-> fail, ret |-> Null]
NoFail == [i \in 1..(MaxOrbId + 1) |-> 0]
\* fail points the specifications draw from: none, source.stop() throws,
\* gain.disconnect() throws
FailSet == {0, 1, 4}
MixFailSet == {0, 1}

Init ==
  /\ now = 0
  /\ nodesRef = NoChains
  /\ audio = NoMap
  /\ auto = NoMap
  /\ nextNode = 1
  /\ reverbMade = 0
  /\ mounted = TRUE
  /\ created = {}
  /\ raised = FALSE
  /\ orbs = <<>>
  /\ nextOrbId = 1
  /\ globalMuted = FALSE
  /\ presets = [i \in {1} |-> createDefaultPreset]
  /\ activePresetId = 1
  /\ nextPresetId = 2
  /\ activeOrbsRef = {}
  /\ scheduledStartsRef = NoMap
  /\ timers = {}
  /\ startTime = Null
  /\ gone = NoMap
  /\ orphanRuns = {}
  /\ lastOp = Op("init", 0, FALSE, 0)
  /\ library = [libraryItems |-> <<>>, nextLibraryId |-> 1, db |-> NoMap,
                nextDbId |-> 1, prevPresetIdRef |-> 1, tasks |-> <<>>]
  /\ meter = [peakRef |-> NegInf, peakHoldRef |-> 0, peakDb |-> NegInf,
              sinceSet |-> Null, setTo |-> NegInf]

\* the audio clock advances
TickTo(max) ==
  /\ now < max * TickMs
  /\ now' = now + TickMs
  /\ lastOp' = Op("tick", 0, FALSE, 0)
  /\ UNCHANGED <<nodesRef, audio, auto, nextNode, reverbMade, mounted,
                 created, raised, orbs, nextOrbId, globalMuted, presets,
                 activePresetId, nextPresetId, activeOrbsRef,
                 scheduledStartsRef, timers, startTime, gone, orphanRuns, library,
                 meter>>

Tick == TickTo(MaxTick)

\* ------------------------------------- the engine called directly
ETick == TickTo(EngMaxTick)
\* start times passed to startSound: none, one the clock passes after its
\* first tick, one it passes after its second
StartTimes == {Null, TickMs \div 2, TickMs + TickMs \div 2}
\* the arguments the calls are made with
EngArgs == [x |-> 5, y |-> 2, size |-> 100, fe |-> TRUE]

EStartSound(id, muted, startAt, fail) ==
  /\ mounted
  /\ Cardinality(created) < MaxChains
  /\ Commit(startSound(World, now, id, EngArgs.x, EngArgs.y, EngArgs.size,
                       muted, startAt, EngArgs.fe, DefaultLpf, fail))
  /\ lastOp' = [Op("startSound", id, id \in DOMAIN nodesRef, fail) EXCEPT
                  !.fail = IF id \in DOMAIN nodesRef THEN fail ELSE 0]
  /\ UNCHANGED <<now, mounted, orphanRuns>>

EStopSound(id, fail) ==
  /\ mounted
  /\ Commit(stopSound(World, id, fail))
  /\ lastOp' = [Op("stopSound", id, id \in DOMAIN nodesRef, fail) EXCEPT
                  !.fail = IF id \in DOMAIN nodesRef THEN fail ELSE 0]
  /\ UNCHANGED <<now, mounted, orphanRuns>>

EUpdateSound(id, muted) ==
  /\ mounted
  /\ Commit(updateSound(World, now, id, EngArgs.x, EngArgs.y, EngArgs.size,
                        muted, EngArgs.fe, DefaultLpf))
  /\ lastOp' = Op("updateSound", id, id \in DOMAIN nodesRef, 0)
  /\ UNCHANGED <<now, mounted, orphanRuns>>

\* RMS values the analyser data can give
AmpVals == {0, 50}

EGetAmplitude(id, rms) ==
  /\ mounted
  /\ lastOp' = [Op("getAmplitude", id, id \in DOMAIN nodesRef, 0) EXCEPT
                  !.ret = getAmplitude(World, id, rms)]
  /\ UNCHANGED <<now, nodesRef, audio, auto, nextNode, reverbMade, mounted,
                 created, raised, orbs, nextOrbId, globalMuted, presets,
                 activePresetId, nextPresetId, activeOrbsRef,
                 scheduledStartsRef, timers, startTime, gone, orphanRuns, library,
                 meter>>

EGetFilterResponse(id) ==
  /\ mounted
  /\ lastOp' = [Op("getFilterResponse", id, id \in DOMAIN nodesRef, 0) EXCEPT
                  !.ret = getFilterResponse(World, id)]
  /\ UNCHANGED <<now, nodesRef, audio, auto, nextNode, reverbMade, mounted,
                 created, raised, orbs, nextOrbId, globalMuted, presets,
                 activePresetId, nextPresetId, activeOrbsRef,
                 scheduledStartsRef, timers, startTime, gone, orphanRuns, library,
                 meter>>

EUnmount(fails) ==
  /\ mounted
  /\ mounted' = FALSE
  /\ Commit(unmountCleanup(World, fails))
  /\ lastOp' = Op("unmount", 0, nodesRef # NoChains, 0)
  /\ UNCHANGED <<now, orphanRuns>>

NextEngine ==
  \/ ETick
  \/ \E id \in OrbIds, startAt \in StartTimes, fail \in FailSet :
       /\ (id \notin DOMAIN nodesRef => fail = 0)
       /\ EStartSound(id, FALSE, startAt, fail)
  \/ \E id \in OrbIds, fail \in FailSet :
       /\ (id \notin DOMAIN nodesRef => fail = 0)
       /\ EStopSound(id, fail)
  \/ \E id \in OrbIds : EUpdateSound(id, TRUE)
  \/ \E id \in OrbIds, rms \in AmpVals : EGetAmplitude(id, rms)
  \/ \E id \in OrbIds : EGetFilterResponse(id)
  \/ \E fails \in [OrbIds -> FailSet] :
       /\ \A i \in OrbIds : i \notin DOMAIN nodesRef => fails[i] = 0
       /\ EUnmount(fails)

SpecEngine == Init /\ [][NextEngine]_vars

\* --------------------------- the engine called with every mapping input
XVals == {0, 10}
YVals == {0, 2, 4, 6, 8, 10}
SizeVals == {MIN_SIZE, MAX_SIZE, 250}
\* the reverb lowpass base frequencies a preset can hold: the lowest one
\* and the default
LpfVals == {200, DefaultLpf}
MapArgs == [x : XVals, y : YVals, size : SizeVals, muted : BOOLEAN,
            fe : BOOLEAN, lpf : LpfVals]
MapOp(op, id, had, a) ==
  [op |-> op, id |-> id, had |-> had, fail |-> 0, args |-> a]

MStartSound(id, a) ==
  /\ Cardinality(created) < MaxChains
  /\ Commit(startSound(World, now, id, a.x, a.y, a.size, a.muted, Null,
                       a.fe, a.lpf, 0))
  /\ lastOp' = MapOp("startSound", id, id \in DOMAIN nodesRef, a)
  /\ UNCHANGED <<now, mounted, orphanRuns>>

MUpdateSound(id, a) ==
  /\ id \in DOMAIN nodesRef
  /\ Commit(updateSound(World, now, id, a.x, a.y, a.size, a.muted, a.fe,
                        a.lpf))
  /\ lastOp' = MapOp("updateSound", id, TRUE, a)
  /\ UNCHANGED <<now, mounted, orphanRuns>>

NextMapper ==
  \/ \E a \in MapArgs : MStartSound(1, a)
  \/ \E a \in MapArgs : MUpdateSound(1, a)

SpecMapper == Init /\ [][NextMapper]_vars

\* ------------------------------- decodeAudio called with every buffer
\* sample values of the decoded audio: silence, a sample whose blocks lie
\* on either side of the -70 LUFS gate, and a loud one
SampleVals == {0, 30, 500}
\* decoded buffers: mono ones of every length, and stereo ones of one or
\* two samples
StereoLen == 2
Buffers ==
  UNION {{[length |-> n, channels |-> <<data>>] :
            data \in [1..n -> SampleVals]} : n \in 1..MaxBufLen}
  \cup UNION {{[length |-> n, channels |-> <<left, right>>] :
                 left \in [1..n -> SampleVals],
                 right \in [1..n -> SampleVals]} : n \in 1..StereoLen}

\* decodeAudio: decodeAudioData makes the one buffer of the heap and
\* normalizeLUFS is called on it
DecodeAudio(buf) ==
  /\ lastOp' = [op |-> "decodeAudio", id |-> 1, had |-> FALSE, fail |-> 0,
                heap |-> [i \in {1} |-> buf],
                target |-> TargetLUFS,
                ret |-> normalizeLUFS([i \in {1} |-> buf], 1, TargetLUFS)]
  /\ UNCHANGED <<now, nodesRef, audio, auto, nextNode, reverbMade, mounted,
                 created, raised, orbs, nextOrbId, globalMuted, presets,
                 activePresetId, nextPresetId, activeOrbsRef,
                 scheduledStartsRef, timers, startTime, gone, orphanRuns, library,
                 meter>>

\* normalizeLUFS called with another target than decodeAudio's, on the
\* buffers of one sample: a target just below the loudness of a loud
\* sample, and one more than 40 dB below it
TargetVals == {-440, -900}
DirectLen == 1
NormalizeLUFS(buf, targetLUFS) ==
  /\ lastOp' = [op |-> "normalizeLUFS", id |-> 1, had |-> FALSE, fail |-> 0,
                heap |-> [i \in {1} |-> buf],
                target |-> targetLUFS,
                ret |-> normalizeLUFS([i \in {1} |-> buf], 1, targetLUFS)]
  /\ UNCHANGED <<now, nodesRef, audio, auto, nextNode, reverbMade, mounted,
                 created, raised, orbs, nextOrbId, globalMuted, presets,
                 activePresetId, nextPresetId, activeOrbsRef,
                 scheduledStartsRef, timers, startTime, gone, orphanRuns, library,
                 meter>>

NextLufs ==
  \/ \E buf \in Buffers : DecodeAudio(buf)
  \/ \E buf \in {b \in Buffers : b.length <= DirectLen} :
       \E targetLUFS \in TargetVals : NormalizeLUFS(buf, targetLUFS)

SpecLufs == Init /\ [][NextLufs]_vars

\* ------------------------------------------- MixerField and its handlers
\* where the specification drops orbs
DropX == 5
DropY == 2

\* handleDrop (with addOrbWithSchedule): the dragged sound is in the library
HandleDrop(x, y) ==
  /\ nextOrbId <= MaxOrbId
  /\ LET p == ActivePreset(World)
         st == IF startTime = Null THEN now ELSE startTime
         nextBar == getNextBarTime(st, now, p.bpm, 4)
         cx == Clamp(x, 0, 10)
         cy == Clamp(y, 0, 10)
         w1 == addOrb(World, cx, cy)
         w2 == IF p.quantizeEnabled
               THEN [updateOrb(w1, nextOrbId, [waiting |-> TRUE]) EXCEPT
                       !.scheduledStartsRef = Put(@, nextOrbId, nextBar),
                       !.startTime = st]
               ELSE w1
     IN Render(w2, TRUE, NoFail)
  /\ UNCHANGED <<now, mounted, lastOp, orphanRuns>>

\* handleRemoveOrb, from the remove button of an orb on the field
HandleRemoveOrb(id, fail) ==
  /\ id \in OrbIdsOf(orbs)
  /\ LET w1 == [stopSound(World, id, fail) EXCEPT !.activeOrbsRef = @ \ {id}]
         w2 == removeOrb(w1, id, now)
     IN Render(w2, TRUE, NoFail)
  /\ UNCHANGED <<now, mounted, lastOp, orphanRuns>>

\* SoundOrb's mute button: onToggleMute(orb.id)
HandleToggleMute(id) ==
  /\ id \in OrbIdsOf(orbs)
  /\ Render(toggleMute(World, id), TRUE, NoFail)
  /\ UNCHANGED <<now, mounted, lastOp, orphanRuns>>

\* fail points for the chains a preset change tears down
FailsFor(ids) == {f \in [1..(MaxOrbId + 1) -> MixFailSet] :
                    \A i \in DOMAIN f : i \notin ids => f[i] = 0}

\* handleNewPreset -> createPreset
HandleNewPreset(fails) ==
  /\ nextPresetId <= MaxPresetId
  /\ LET w1 == [clearLibrary(clearOrbs(World, now)) EXCEPT
                  !.presets = Put(@, nextPresetId, createDefaultPreset),
                  !.activePresetId = nextPresetId,
                  !.nextPresetId = @ + 1]
     IN Render(w1, TRUE, fails)
  /\ UNCHANGED <<now, mounted, lastOp, orphanRuns>>

\* handlePresetSwitch -> switchPreset
HandlePresetSwitch(id, fails) ==
  /\ id \in DOMAIN presets
  /\ id # activePresetId
  /\ LET w1 == [clearLibrary(clearOrbs(World, now)) EXCEPT !.activePresetId = id]
     IN Render(w1, TRUE, fails)
  /\ UNCHANGED <<now, mounted, lastOp, orphanRuns>>

\* handleDeletePreset -> deletePreset(activePresetId)
HandleDeletePreset(fails) ==
  /\ Cardinality(DOMAIN presets) > 1
  /\ LET remaining == DOMAIN presets \ {activePresetId}
         first == CHOOSE i \in remaining : \A j \in remaining : i <= j
         w1 == [clearLibrary(clearOrbs(World, now)) EXCEPT
                  !.presets = Without(@, activePresetId),
                  !.activePresetId = first]
     IN Render(w1, TRUE, fails)
  /\ UNCHANGED <<now, mounted, lastOp, orphanRuns>>

\* the callback of the 'clear waiting' timeout set by the start effect
TimerFire(tm) ==
  /\ tm \in timers
  /\ now >= tm.due
  /\ LET w1 == [updateOrb(World, tm.orb, [waiting |-> FALSE]) EXCEPT
                  !.timers = @ \ {tm},
                  !.scheduledStartsRef =
                     IF tm.orb \in DOMAIN @ THEN Without(@, tm.orb) ELSE @]
     IN Render(w1, TRUE, NoFail)
  /\ orphanRuns' = IF tm.orb \in OrbIdsOf(orbs) THEN orphanRuns
                   ELSE orphanRuns \cup {tm}
  /\ UNCHANGED <<now, mounted, lastOp>>

Next ==
  \/ Tick
  \/ HandleDrop(DropX, DropY)
  \/ \E id \in OrbIds, fail \in MixFailSet : HandleRemoveOrb(id, fail)
  \/ \E id \in OrbIds : HandleToggleMute(id)
  \/ \E fails \in FailsFor(DOMAIN nodesRef) : HandleNewPreset(fails)
  \/ \E id \in 1..MaxPresetId, fails \in FailsFor(DOMAIN nodesRef) :
       HandlePresetSwitch(id, fails)
  \/ \E fails \in FailsFor(DOMAIN nodesRef) : HandleDeletePreset(fails)
  \/ \E tm \in timers : TimerFire(tm)

Spec == Init /\ [][Next]_vars

\* ------------------------------------------- the Library and its handlers
\* a batch of two files, each of which decodes or does not
Batches ==
  {<<[name |-> "a", decodable |-> da], [name |-> "b", decodable |-> db]>> :
     da \in BOOLEAN, db \in BOOLEAN}
Imports == {k \in DOMAIN library.tasks : library.tasks[k].kind = "import"}
Loads == {k \in DOMAIN library.tasks : library.tasks[k].kind = "load"}
CanStart == Len(library.tasks) < MaxTasks

\* handleFileImport up to its first await
HandleFileImport(files) ==
  /\ CanStart
  /\ Imports = {}
  /\ library' = [library EXCEPT !.tasks =
                   Append(@, [kind |-> "import", pc |-> "decode",
                              files |-> files, i |-> 1, results |-> <<>>])]
  /\ UNCHANGED <<now, nodesRef, audio, auto, nextNode, reverbMade, mounted,
                 created, raised, orbs, nextOrbId, globalMuted, presets,
                 activePresetId, nextPresetId, activeOrbsRef,
                 scheduledStartsRef, timers, startTime, gone, orphanRuns,
                 lastOp,
                 meter>>

\* file.arrayBuffer() and decodeAudio settle: the import goes on to
\* saveToDb, or decodeAudio rejected and the catch block runs
ImportDecode(k) ==
  /\ k \in Imports
  /\ library.tasks[k].pc = "decode"
  /\ LET task == library.tasks[k]
     IN library' = [library EXCEPT !.tasks[k] =
                      IF task.files[task.i].decodable
                      THEN [task EXCEPT !.pc = "save"]
                      ELSE ImportCatch(task)]
  /\ UNCHANGED <<now, nodesRef, audio, auto, nextNode, reverbMade, mounted,
                 created, raised, orbs, nextOrbId, globalMuted, presets,
                 activePresetId, nextPresetId, activeOrbsRef,
                 scheduledStartsRef, timers, startTime, gone, orphanRuns,
                 lastOp,
                 meter>>

\* saveToDb resolves with the key of the new record; addToLibrary and
\* addDbIdToPreset follow at once
ImportSave(k) ==
  /\ k \in Imports
  /\ library.tasks[k].pc = "save"
  /\ LET task == library.tasks[k]
         name == task.files[task.i].name
         dbId == library.nextDbId
         w1 == [World EXCEPT !.library.db = Put(@, dbId, name),
                             !.library.nextDbId = @ + 1]
         w2 == addDbIdToPreset(addToLibrary(w1, name, dbId), dbId)
         w3 == [w2 EXCEPT !.library.tasks[k] =
                  Advance([task EXCEPT !.results = Append(@, dbId)],
                          Len(task.files))]
     IN Render(w3, FALSE, NoFail)
  /\ UNCHANGED <<now, mounted, lastOp, orphanRuns>>

\* getByIdsFromDb resolves with the records found, in the order of ids
LoadGet(k) ==
  /\ k \in Loads
  /\ library.tasks[k].pc = "get"
  /\ LET task == library.tasks[k]
         items == SelectSeq(task.ids, LAMBDA id : id \in DOMAIN library.db)
     IN library' = [library EXCEPT !.tasks[k] =
                      [task EXCEPT !.items = items,
                                   !.pc = IF items = <<>> THEN "done"
                                          ELSE "decode"]]
  /\ UNCHANGED <<now, nodesRef, audio, auto, nextNode, reverbMade, mounted,
                 created, raised, orbs, nextOrbId, globalMuted, presets,
                 activePresetId, nextPresetId, activeOrbsRef,
                 scheduledStartsRef, timers, startTime, gone, orphanRuns,
                 lastOp,
                 meter>>

\* decodeAudio(item.audioData) resolves and addToLibrary follows; the
\* stored data is data that decodeAudio decoded when it was imported
LoadDecode(k) ==
  /\ k \in Loads
  /\ library.tasks[k].pc = "decode"
  /\ LET task == library.tasks[k]
         dbId == task.items[task.i]
         w1 == addToLibrary(World, library.db[dbId], dbId)
         w2 == [w1 EXCEPT !.library.tasks[k] =
                  Advance(task, Len(task.items))]
     IN Render(w2, FALSE, NoFail)
  /\ UNCHANGED <<now, mounted, lastOp, orphanRuns>>

NextLibrary ==
  \/ \E files \in Batches : HandleFileImport(files)
  \/ \E k \in DOMAIN library.tasks : ImportDecode(k)
  \/ \E k \in DOMAIN library.tasks : ImportSave(k)
  \/ \E k \in DOMAIN library.tasks : LoadGet(k)
  \/ \E k \in DOMAIN library.tasks : LoadDecode(k)
  \/ HandleNewPreset(NoFail)
  \/ \E id \in 1..MaxPresetId : CanStart /\ HandlePresetSwitch(id, NoFail)
  \/ CanStart /\ HandleDeletePreset(NoFail)

SpecLibrary == Init /\ [][NextLibrary]_vars

\* ------------------------------------------------------------ MasterMeter
\* Levels are in 1/10 dB and NegInf is -Infinity; a frame is given by
\* the largest absolute sample of the analyser's buffer, in 1/100.
HOLD_FRAMES == 60
DECAY == 5
PeakAmps == {0, 25, 50, 70, 100}
\* peak > 0 ? 20 * Math.log10(peak) : -Infinity
PeakDb(peak) ==
  CASE peak = 0 -> NegInf
    [] peak = 25 -> -120
    [] peak = 50 -> -60
    [] peak = 70 -> -31
    [] peak = 100 -> 0
\* a - b, where -Infinity - b is -Infinity
Minus(a, b) == IF a = NegInf THEN NegInf ELSE a - b

\* the peak hold of draw with a decay that does not look at the frame
peakHoldNoFloor(m, peakDb) ==
  IF peakDb > m.peakRef
  THEN [m EXCEPT !.peakRef = peakDb, !.peakHoldRef = HOLD_FRAMES]
  ELSE IF m.peakHoldRef > 0
  THEN [m EXCEPT !.peakHoldRef = @ - 1]
  ELSE [m EXCEPT !.peakRef = Minus(@, DECAY)]

\* the peak hold of draw: peakRef and peakHoldRef after a frame of peakDb
peakHold(m, peakDb) ==
  IF peakDb > m.peakRef
  THEN [m EXCEPT !.peakRef = peakDb, !.peakHoldRef = HOLD_FRAMES]
  ELSE IF m.peakHoldRef > 0
  THEN [m EXCEPT !.peakHoldRef = @ - 1]
  ELSE [m EXCEPT !.peakRef = Max(Minus(@, DECAY), peakDb)]

\* one animation frame; sinceSet counts the frames drawn since a frame
\* last raised the held peak (up to HOLD_FRAMES + 1) and setTo is the
\* level that frame had
Draw(peak) ==
  /\ \/ meter.peakRef = NegInf
     \/ meter.peakRef >= -MaxDecay
     \/ PeakDb(peak) > meter.peakRef
  /\ LET peakDb == PeakDb(peak)
         m == peakHold(meter, peakDb)
     IN meter' = [m EXCEPT
                    !.peakDb = peakDb,
                    !.sinceSet = IF peakDb > meter.peakRef THEN 0
                                 ELSE IF @ = Null THEN Null
                                 ELSE Min(@ + 1, HOLD_FRAMES + 1),
                    !.setTo = IF peakDb > meter.peakRef THEN peakDb ELSE @]
  /\ UNCHANGED <<now, nodesRef, audio, auto, nextNode, reverbMade, mounted,
                 created, raised, orbs, nextOrbId, globalMuted, presets,
                 activePresetId, nextPresetId, activeOrbsRef,
                 scheduledStartsRef, timers, startTime, gone, orphanRuns,
                 lastOp, library>>

NextMeter == \E peak \in PeakAmps : Draw(peak)

SpecMeter == Init /\ [][NextMeter]_vars

\* ------------------------------------- getNextBarTime called directly
\* tempos within setBpm's range of 40..240 whose bar is a whole number of
\* ms, reference times, and clock times around the start of a bar
BpmVals == {40, 96, 120, 200, 240}
RefTimes == {0, 1500}
BarOffsets(bar) == {0, 1, bar - 51, bar - 50, bar - 49, bar - 1}

\* initBeatClock has set the reference time st; the clock reads t
GetNextBarTime(st, t, bpm) ==
  /\ lastOp' = [op |-> "getNextBarTime", id |-> 0, had |-> FALSE,
                fail |-> 0, st |-> st, t |-> t, bpm |-> bpm,
                ret |-> getNextBarTime(st, t, bpm, 4)]
  /\ UNCHANGED <<now, nodesRef, audio, auto, nextNode, reverbMade, mounted,
                 created, raised, orbs, nextOrbId, globalMuted, presets,
                 activePresetId, nextPresetId, activeOrbsRef,
                 scheduledStartsRef, timers, startTime, gone, orphanRuns,
                 library, meter>>

NextClock ==
  \E st \in RefTimes, bpm \in BpmVals, n \in 0..(MaxBars - 1) :
    \E d \in BarOffsets(240000 \div bpm) :
      GetNextBarTime(st, st + n * (240000 \div bpm) + d, bpm)

SpecClock == Init /\ [][NextClock]_vars

\* --------------------------------------- SoundOrb's drag, resize and wheel
\* pointer positions relative to the field, in tenths: left of or above
\* it, inside it, right of or below it
RawPos == {-3, 4, 13}
\* pointer travel of a resize drag in px, and deltaY of a wheel event
ResizeDeltas == {-200, -30, 30, 200}
WheelDeltas == {-100, 100}

\* the size a wheel event gives, without the clamp
wheelSizeUnclamped(size, deltaY) == size + (IF deltaY > 0 THEN -5 ELSE 5)
\* handleWheel: delta and newSize
wheelSize(size, deltaY) ==
  Clamp(size + (IF deltaY > 0 THEN -5 ELSE 5), MIN_SIZE, MAX_SIZE)

\* a mousemove of a position drag: px, py is the pointer less dragOffset,
\* over the size of the field
HandleDragMove(id, px, py) ==
  /\ id \in OrbIdsOf(orbs)
  /\ Render(updateOrb(World, id, [x |-> Clamp(px, 0, 10),
                                  y |-> Clamp(py, 0, 10)]), TRUE, NoFail)
  /\ UNCHANGED <<now, mounted, lastOp, orphanRuns>>

\* a mousedown on the resize handle and a mousemove delta px above it
HandleResizeMove(id, delta) ==
  /\ id \in OrbIdsOf(orbs)
  /\ \E i \in DOMAIN orbs :
       /\ orbs[i].id = id
       /\ Render(updateOrb(World, id,
                           [size |-> Clamp(orbs[i].size + delta,
                                           MIN_SIZE, MAX_SIZE)]),
                 TRUE, NoFail)
  /\ UNCHANGED <<now, mounted, lastOp, orphanRuns>>

HandleWheel(id, deltaY) ==
  /\ id \in OrbIdsOf(orbs)
  /\ \E i \in DOMAIN orbs :
       /\ orbs[i].id = id
       /\ Render(updateOrb(World, id,
                           [size |-> wheelSize(orbs[i].size, deltaY)]),
                 TRUE, NoFail)
  /\ UNCHANGED <<now, mounted, lastOp, orphanRuns>>

\* one orb is dropped anywhere, then dragged, resized and scrolled
NextField ==
  \/ \E x \in RawPos, y \in RawPos : orbs = <<>> /\ HandleDrop(x, y)
  \/ \E id \in OrbIds, px \in RawPos, py \in RawPos :
       HandleDragMove(id, px, py)
  \/ \E id \in OrbIds, delta \in ResizeDeltas : HandleResizeMove(id, delta)
  \/ \E id \in OrbIds, deltaY \in WheelDeltas : HandleWheel(id, deltaY)

SpecField == Init /\ [][NextField]_vars

\* ---------------------------------- MixerField with timers that fire
\* Orbs are dropped while the clock is below its bound, so that the bar
\* they wait for is reached; the clock advances and a timeout that is due
\* runs its callback.
NextLive ==
  \/ Tick
  \/ now < MaxTick * TickMs /\ HandleDrop(DropX, DropY)
  \/ \E id \in OrbIds, fail \in MixFailSet : HandleRemoveOrb(id, fail)
  \/ \E id \in OrbIds : HandleToggleMute(id)
  \/ \E fails \in FailsFor(DOMAIN nodesRef) : HandleNewPreset(fails)
  \/ \E id \in 1..MaxPresetId, fails \in FailsFor(DOMAIN nodesRef) :
       HandlePresetSwitch(id, fails)
  \/ \E fails \in FailsFor(DOMAIN nodesRef) : HandleDeletePreset(fails)
  \/ \E tm \in timers : TimerFire(tm)

SpecLive ==
  /\ Init
  /\ [][NextLive]_vars
  /\ WF_vars(Tick)
  /\ WF_vars(\E tm \in timers : TimerFire(tm))

\* ------------------------------------ MixerField's reverb and mute controls
\* the reverb button of the toolbar
HandleToggleReverb ==
  /\ Render(toggleReverb(World), FALSE, NoFail)
  /\ UNCHANGED <<now, mounted, lastOp, orphanRuns>>

\* positions of the send slider: closed and fully open
SendVals == {0, 100}

\* the send slider of the toolbar
HandleSetReverbSendLevel(value) ==
  /\ Render(setReverbSendLevel(World, value), FALSE, NoFail)
  /\ UNCHANGED <<now, mounted, lastOp, orphanRuns>>

\* the global mute button of the toolbar
HandleToggleGlobalMute ==
  /\ Render(toggleGlobalMute(World), FALSE, NoFail)
  /\ UNCHANGED <<now, mounted, lastOp, orphanRuns>>

\* one voice is enough to have startSound build the reverb chain: a sound
\* is dropped as long as no chain was ever built
NextReverb ==
  \/ Tick
  \/ created = {} /\ HandleDrop(DropX, DropY)
  \/ HandleToggleReverb
  \/ \E value \in SendVals : HandleSetReverbSendLevel(value)
  \/ HandleToggleGlobalMute
  \/ HandleNewPreset(NoFail)
  \/ \E id \in 1..MaxPresetId : HandlePresetSwitch(id, NoFail)

SpecReverb == Init /\ [][NextReverb]_vars

\* ---------------------------------------------------------- properties
\* a chain of the history is live when the registry still holds it
Live(c) == c.orb \in DOMAIN nodesRef /\ nodesRef[c.orb] = c.chain
Disconnected(au, ch) == \A n \in NodesOf(ch) : au[n].out = {}
\* a chain that still sounds or can still sound: its source has not been
\* stopped, or one of its nodes is still connected
Sounding(ch) == ~audio[ch.source].stopped \/ ~Disconnected(audio, ch)

\* C1: after any sequence of startSound, stopSound and updateSound calls the
\* registry holds at most one chain per voice id, and every chain created
\* earlier that is no longer in the registry has been stopped and
\* disconnected.
C1_OneChainPerVoice ==
  /\ \A c, d \in created : Live(c) /\ Live(d) /\ c.orb = d.orb => c = d
  /\ \A c \in created : ~Live(c) => ~Sounding(c.chain)

\* C2: whenever a chain leaves the registry (stopSound, the stopSound inside
\* startSound, the unmount cleanup), each of its six nodes has been
\* disconnected, also when source.stop() or an earlier disconnect threw.
C2_TeardownDisconnectsAll ==
  [][\A id \in DOMAIN nodesRef :
        (id \notin DOMAIN nodesRef' \/ nodesRef'[id] # nodesRef[id])
        => Disconnected(audio', nodesRef[id])]_vars

\* C3: stopSound never raises and always leaves the id out of the registry,
\* also when a node threw during teardown; for an id without a chain it
\* changes nothing; it never touches the chain of another id.
C3_StopSoundIdempotent ==
  [][lastOp'.op = "stopSound" =>
       /\ ~raised'
       /\ lastOp'.id \notin DOMAIN nodesRef'
       /\ (lastOp'.id \notin DOMAIN nodesRef =>
             nodesRef' = nodesRef /\ audio' = audio /\ auto' = auto)
       /\ \A j \in DOMAIN nodesRef \ {lastOp'.id} :
            /\ j \in DOMAIN nodesRef'
            /\ nodesRef'[j] = nodesRef[j]
            /\ \A n \in NodesOf(nodesRef[j]) :
                 audio'[n] = audio[n] /\ auto'[n] = auto[n]]_vars

\* a teardown in which a node threw has been swallowed, next to the chain of
\* another voice
C3_Witness ==
  /\ lastOp.op = "stopSound"
  /\ lastOp.had
  /\ lastOp.fail # 0
  /\ lastOp.id \notin DOMAIN nodesRef
  /\ nodesRef # NoChains
  /\ ~raised

\* C4: removing a voice whose scheduled start has not yet come does not
\* raise, and from then on the voice has no chain in the registry and its
\* source has been stopped.
C4_PendingStartCancelled ==
  /\ ~raised
  /\ \A c \in created :
       (/\ c.orb \in DOMAIN gone
        /\ c.chain.startAt # Null
        /\ gone[c.orb] < c.chain.startAt)
       => c.orb \notin DOMAIN nodesRef /\ audio[c.chain.source].stopped

\* C5: when an orb leaves the store (remove button, preset switch, preset
\* creation) before its 'clear waiting' timer is due, the callback of that
\* timer does not run afterwards.
C5_NoCallbackAfterRemoval ==
  \A tm \in orphanRuns : ~(gone[tm.orb] < tm.due)

\* the gain the engine computes for an orb of the store
TargetGain(o) ==
  FinalVolume(o.y, o.size, o.muted \/ globalMuted,
              presets[activePresetId].filterEnabled)

\* C6: while the scheduled start of a voice is still ahead, every value
\* scheduled on its gain before startAt is 0 and the gain is set to the
\* target gain exactly at startAt, whatever updateSound calls came between.
C6_SilentUntilStartAt ==
  \A i \in DOMAIN orbs :
    LET o == orbs[i] IN
    o.id \in DOMAIN nodesRef =>
      LET ch == nodesRef[o.id]
          g == auto[ch.gain]
      IN (ch.startAt # Null /\ now < ch.startAt) =>
           /\ \A u \in DOMAIN g.tl : u < ch.startAt => g.tl[u].v = 0
           /\ ch.startAt \in DOMAIN g.tl
           /\ g.tl[ch.startAt] = Ev("setValue", TargetGain(o))

\* C7: while a voice is muted (orb.muted or globalMuted, applied by the
\* update effect), the gain node is at 0 and every value scheduled on it
\* from now on is 0.
C7_MutedGainZero ==
  \A i \in DOMAIN orbs :
    LET o == orbs[i] IN
    (o.muted \/ globalMuted) /\ o.id \in DOMAIN nodesRef =>
      LET g == auto[nodesRef[o.id].gain]
      IN /\ ScheduledTarget(g, now) = 0
         /\ \A u \in DOMAIN g.tl : u >= now => g.tl[u].v = 0

\* C8: when startSound is given no start time or one that is not later than
\* the clock, the source starts now and the only event on the gain is the
\* target gain set at the current time.
C8_ImmediateStart ==
  [][lastOp'.op = "startSound" =>
       LET ch == nodesRef'[lastOp'.id]
       IN (ch.startAt = Null \/ ch.startAt <= now) =>
            /\ audio'[ch.source].when = now
            /\ ~audio'[ch.source].stopped
            /\ auto'[ch.gain].tl =
                 Insert(NoTl, now,
                        Ev("setValue", FinalVolume(EngArgs.y, EngArgs.size,
                                                   FALSE, EngArgs.fe)))]_vars

\* startSound was called with a start time the clock had already passed
C8_Witness ==
  /\ lastOp.op = "startSound"
  /\ lastOp.id \in DOMAIN nodesRef
  /\ nodesRef[lastOp.id].startAt # Null
  /\ nodesRef[lastOp.id].startAt < now
  /\ audio[nodesRef[lastOp.id].source].when = now

\* C9: under MixerField a registered chain is never replaced, an id whose
\* chain was torn down is never registered again, orb ids only grow, and
\* every new chain is made of nodes that did not exist before.
C9_Lifecycle ==
  [][/\ \A id \in DOMAIN nodesRef' :
          IF id \in DOMAIN nodesRef THEN nodesRef'[id] = nodesRef[id]
          ELSE id \notin {c.orb : c \in created} \cup DOMAIN gone
     /\ nextOrbId' >= nextOrbId
     /\ \A i \in DOMAIN orbs' :
          orbs'[i].id \in OrbIdsOf(orbs) \/ orbs'[i].id >= nextOrbId
     /\ \A c \in created' \ created :
          /\ NodesOf(c.chain) \cap DOMAIN audio = {}
          /\ Cardinality(NodesOf(c.chain)) = 6]_vars

\* a later orb plays on new nodes after the chain of an earlier one was
\* torn down
C9_Witness ==
  \E c, d \in created :
    /\ c.orb < d.orb
    /\ c.orb \notin DOMAIN nodesRef
    /\ c.orb \in DOMAIN gone
    /\ Live(d)
    /\ NodesOf(c.chain) \cap NodesOf(d.chain) = {}

\* what the engine has applied to the live nodes of a chain at time t
Applied(ch, t) ==
  [type |-> auto[ch.filter].type,
   freq |-> ScheduledTarget(auto[ch.filter], t),
   pan |-> ScheduledTarget(auto[ch.panner], t),
   gain |-> ScheduledTarget(auto[ch.gain], t)]
\* the readout's name for a filter setting of the engine
FilterName(type, freq) ==
  IF type = "highpass" THEN "HPF"
  ELSE IF type = "lowpass" /\ freq = 20000 THEN "OFF"
  ELSE "LPF"

\* C10: for every voice state (x, y, size, muted, filterEnabled) the filter
\* type, cutoff, compensation, pan and gain of getFilterDebugInfo are the
\* ones the engine has applied to the live nodes for that state; the
\* displayed gain and compensation together make the gain of the gain node.
C10_DebugMatchesEngine ==
  lastOp.op \in {"startSound", "updateSound"} /\ lastOp.id \in DOMAIN nodesRef
  => LET a == lastOp.args
         d == getFilterDebugInfo(a.x, a.y, a.size)
         e == Applied(nodesRef[lastOp.id], now)
     IN /\ d.filterType = FilterName(e.type, e.freq)
        /\ d.filterType # "OFF" => d.freq = e.freq
        /\ d.comp = (IF a.fe THEN getFilterCompensation(a.y) ELSE 80)
        /\ d.pan = e.pan
        /\ d.gain * d.comp = e.gain

\* the inputs of the last engine call and the chain it acted on
MappedCall ==
  lastOp.op \in {"startSound", "updateSound"} /\ lastOp.id \in DOMAIN nodesRef

\* clamp(size / 200, 0, 1)^3 times the compensation in force, in the unit
\* of the gain node
Product(a) ==
  LET t == Clamp(a.size, 0, 200)
      compensation == IF a.fe THEN getFilterCompensation(a.y) ELSE 80
  IN t * t * t * compensation
Ceiling == (3 * GainOne) \div 2
\* 1.8 in the unit of the gain node
MaxProduct == (GainOne \div 5) * 9

\* C11: for every size, y, muted and filterEnabled the gain target that
\* startSound and updateSound compute is 0 when muted and otherwise the
\* smaller of 1.5 and clamp(size / 200, 0, 1)^3 times the compensation; it
\* lies in [0, 1.5], is 1.5 only when the product is at least 1.5, and the
\* product is at most 1.8.
C11_GainTarget ==
  MappedCall
  => LET a == lastOp.args
         g == Applied(nodesRef[lastOp.id], now).gain
     IN /\ g = (IF a.muted THEN 0
                ELSE IF Product(a) > Ceiling THEN Ceiling ELSE Product(a))
        /\ 0 <= g /\ g <= Ceiling
        /\ g = Ceiling => Product(a) >= Ceiling
        /\ Product(a) <= MaxProduct

\* size 200 at the bottom of the field with the filter enabled: the
\* product is 1.8 and the gain node is set to the ceiling
C11_Witness ==
  /\ MappedCall
  /\ ~lastOp.args.muted
  /\ Product(lastOp.args) = MaxProduct
  /\ Applied(nodesRef[lastOp.id], now).gain = Ceiling

\* C12: with the filter enabled, for 0.4 <= y <= 0.6 (both bounds
\* included) and any x and size the main filter is a lowpass heading to
\* 20000 Hz and the compensation in the gain is exactly 1.0; for y < 0.4
\* the filter is a highpass, for y > 0.6 a lowpass with a cutoff below
\* 20000 Hz.
C12_PassThroughBand ==
  MappedCall /\ lastOp.args.fe
  => LET a == lastOp.args
         e == Applied(nodesRef[lastOp.id], now)
     IN /\ a.y >= 4 /\ a.y <= 6
           => /\ e.type = "lowpass"
              /\ e.freq = 20000
              /\ getFilterCompensation(a.y) = 80
              /\ e.gain = (IF a.muted THEN 0 ELSE BaseVolume(a.size) * 80)
        /\ a.y < 4 => e.type = "highpass"
        /\ a.y > 6 => e.type = "lowpass" /\ e.freq < 20000

\* an update moves a sounding voice onto the upper bound of the band
C12_Witness ==
  /\ MappedCall
  /\ lastOp.op = "updateSound"
  /\ lastOp.args.fe /\ ~lastOp.args.muted
  /\ lastOp.args.y = 6
  /\ Applied(nodesRef[lastOp.id], now).freq = 20000
  /\ Applied(nodesRef[lastOp.id], now).gain = BaseVolume(lastOp.args.size) * 80

\* C13: the Q of a voice's main filter is 0.707 in every case: for every
\* y, with the filter enabled or not, at creation and after every update.
C13_MainFilterQ ==
  MappedCall => auto[nodesRef[lastOp.id].filter].q.v = 707

\* the cutoff the reverb-send lowpass of a chain is heading to at time t
SendCutoff(ch, t) == ScheduledTarget(auto[ch.reverbSendLPF], t)

\* C14: with filterEnabled false, whatever y is, the main filter is a
\* lowpass heading to 20000 Hz, the compensation in the gain is 1.0 and
\* the reverb-send cutoff is the preset's base frequency.
C14_FilterDisabled ==
  MappedCall /\ ~lastOp.args.fe
  => LET a == lastOp.args
         e == Applied(nodesRef[lastOp.id], now)
     IN /\ e.type = "lowpass"
        /\ e.freq = 20000
        /\ e.gain = (IF a.muted THEN 0 ELSE BaseVolume(a.size) * 80)
        /\ SendCutoff(nodesRef[lastOp.id], now) = a.lpf

\* an update with the filter disabled at the top of the field, where the
\* enabled filter would be a highpass at 8000 Hz
C14_Witness ==
  /\ MappedCall
  /\ lastOp.op = "updateSound"
  /\ ~lastOp.args.fe /\ ~lastOp.args.muted
  /\ lastOp.args.y = 0
  /\ lastOp.args.lpf = 200
  /\ Applied(nodesRef[lastOp.id], now).freq = 20000
  /\ SendCutoff(nodesRef[lastOp.id], now) = 200

\* C15: the reverb-send cutoff target is max(base, 1.3 * the highpass
\* cutoff of the main filter) when the filter is enabled and y < 0.4, and
\* the base frequency otherwise; it is never below the base frequency and
\* in the highpass band never below the highpass cutoff itself.
C15_ReverbSendCutoff ==
  MappedCall
  => LET a == lastOp.args
         e == Applied(nodesRef[lastOp.id], now)
         send == SendCutoff(nodesRef[lastOp.id], now)
     IN /\ send = (IF a.fe /\ a.y < 4
                   THEN Max(a.lpf, (e.freq * 13) \div 10) ELSE a.lpf)
        /\ send >= a.lpf
        /\ e.type = "highpass" => send >= e.freq

\* at the top of the field the highpass is at 8000 Hz and the send
\* lowpass opens above its base frequency
C15_Witness ==
  /\ MappedCall
  /\ lastOp.args.fe
  /\ lastOp.args.y = 0
  /\ lastOp.args.lpf = DefaultLpf
  /\ Applied(nodesRef[lastOp.id], now).type = "highpass"
  /\ Applied(nodesRef[lastOp.id], now).freq = 8000
  /\ SendCutoff(nodesRef[lastOp.id], now) = 10400

\* the automation event the last call has put on a parameter at the
\* current time
EventNow(n) == auto[n].tl[now]

\* C16: every change updateSound makes to gain, pan, filter cutoff and
\* reverb-send cutoff is a smoothed transition (setTargetAtTime), and
\* updateSound issues no instantaneous set of a gain, pan or filter value:
\* those are issued by startSound at creation only.
C16_UpdatesSmoothed ==
  MappedCall /\ lastOp.op = "updateSound"
  => LET ch == nodesRef[lastOp.id]
     IN /\ \A n \in {ch.gain, ch.panner, ch.filter, ch.reverbSendLPF} :
             now \in DOMAIN auto[n].tl /\ EventNow(n).op = "setTarget"
        /\ auto[ch.filter].q.op \notin {"set", "setValue"}

\* C17: updateSound never rebuilds a chain: for a live id it leaves the
\* registry, the node identities and the connections as they are and
\* touches the parameters of no node outside the chain of that id; for an
\* id with no chain updateSound, getAmplitude and getFilterResponse change
\* nothing, raise nothing and return nothing, 0 and null.
C17_UpdateFrame ==
  [][/\ lastOp'.op = "updateSound"
        => /\ nodesRef' = nodesRef
           /\ audio' = audio
           /\ created' = created
           /\ nextNode' = nextNode
           /\ raised' = raised
           /\ DOMAIN auto' = DOMAIN auto
           /\ \A n \in DOMAIN auto :
                (lastOp'.had /\ n \in NodesOf(nodesRef[lastOp'.id]))
                \/ auto'[n] = auto[n]
           /\ lastOp'.ret = Null
     /\ lastOp'.op \in {"getAmplitude", "getFilterResponse"}
        => /\ UNCHANGED <<now, nodesRef, audio, auto, nextNode, reverbMade,
                          mounted, created, raised>>
           /\ ~lastOp'.had
              => lastOp'.ret = (IF lastOp'.op = "getAmplitude" THEN 0
                                ELSE "null")]_vars

\* an update has steered the chain of one voice while another voice is
\* registered
C17_Witness ==
  /\ lastOp.op = "updateSound"
  /\ lastOp.had
  /\ lastOp.id \in DOMAIN nodesRef
  /\ DOMAIN nodesRef # {lastOp.id}
  /\ EventNow(nodesRef[lastOp.id].gain).op = "setTarget"

\* the wet gain the store state asks for, in 1/100
WantedWet ==
  IF ActivePreset(World).reverbEnabled /\ ~globalMuted
  THEN ActivePreset(World).reverbSendLevel ELSE 0

\* C18: after any sequence of reverb toggles, send-level changes,
\* global-mute toggles and preset switches, whenever the shared reverb chain
\* exists the most recent target of its wet gain is the send level of the
\* active preset if reverb is enabled and the mixer is not muted, and 0
\* otherwise; the wet gain is set to 0 at creation, every later change is a
\* smoothed one, and at most one reverb chain is ever created.
C18_WetGain ==
  /\ reverbMade <= 1
  /\ REV_IN \in DOMAIN audio
     => /\ reverbMade = 1
        /\ ScheduledTarget(auto[WET], now) = WantedWet
        /\ \A t \in DOMAIN auto[WET].tl :
             \/ auto[WET].tl[t].op = "setTarget"
             \/ auto[WET].tl[t] = Ev("set", 0)

\* the wet gain was brought down to 0 earlier and is now heading to the
\* full send level while a voice is playing
C18_Witness ==
  /\ REV_IN \in DOMAIN audio
  /\ nodesRef # NoChains
  /\ now > 0
  /\ ScheduledTarget(auto[WET], 0) = 0
  /\ ScheduledTarget(auto[WET], now) = 100
  /\ WantedWet = 100

\* the connections startSound makes for a chain, as node -> outputs
Wiring(ch) ==
  [n \in NodesOf(ch) |->
     IF n = ch.source THEN {ch.filter}
     ELSE IF n = ch.filter THEN {ch.gain, ch.reverbSendLPF}
     ELSE IF n = ch.gain THEN {ch.panner}
     ELSE IF n = ch.panner THEN {ch.analyser}
     ELSE IF n = ch.analyser THEN {MASTER}
     ELSE {REV_IN}]

\* C19: a chain built by startSound has exactly the connections source ->
\* filter -> gain -> panner -> analyser -> master analyser -> destination
\* and filter -> reverbSendLPF -> reverb input: the send leaves the chain at
\* the filter's output, never at the gain or the panner.
C19_ChainWiring ==
  \A id \in DOMAIN nodesRef :
    /\ \A n \in NodesOf(nodesRef[id]) : audio[n].out = Wiring(nodesRef[id])[n]
    /\ audio[MASTER].out = {DEST}
    /\ audio[REV_IN].out = {CONVOLVER}

\* two voices are registered, each with its own send into the one reverb
\* input
C19_Witness ==
  /\ Cardinality(DOMAIN nodesRef) = 2
  /\ \A id \in DOMAIN nodesRef :
       /\ audio[nodesRef[id].filter].out =
            {nodesRef[id].gain, nodesRef[id].reverbSendLPF}
       /\ audio[nodesRef[id].reverbSendLPF].out = {REV_IN}

\* C20: when the measured loudness is not finite normalizeLUFS returns the
\* very buffer it was given and leaves the buffers as they are; otherwise
\* it returns a buffer that did not exist before and leaves every sample
\* of the input unchanged.
C20_NormalizeKeepsInput ==
  lastOp.op = "decodeAudio"
  => LET before == lastOp.heap
         after == lastOp.ret.heap
         ret == lastOp.ret.ret
     IN /\ \A b \in DOMAIN before : b \in DOMAIN after /\ after[b] = before[b]
        /\ IF isFinite(lastOp.ret.currentLUFS)
           THEN ret \notin DOMAIN before /\ ret \in DOMAIN after
           ELSE ret = lastOp.id /\ after = before

\* a buffer that is not silent but lies below the gate in every block:
\* its loudness is -Infinity and the buffer itself comes back
C20_Witness ==
  /\ lastOp.op = "decodeAudio"
  /\ ~isFinite(lastOp.ret.currentLUFS)
  /\ \E i \in 1..lastOp.heap[1].length : lastOp.heap[1].channels[1][i] # 0
  /\ lastOp.ret.ret = lastOp.id
  /\ lastOp.ret.heap = lastOp.heap

\* ------------------------------------------------------------------- C21
Normalizing == lastOp.op \in {"decodeAudio", "normalizeLUFS"}

\* C21: whenever the measured loudness is finite, the buffer normalizeLUFS
\* returns holds every sample of every channel of the input multiplied by
\* one gain, clamp(10^((target - measured) / 20), 0.01, 10); that gain is
\* below 1 when measured > target and above 1 when measured < target, and
\* it does not depend on the loudness measured again on the output.
C21_NormalizeGain ==
  (Normalizing /\ isFinite(lastOp.ret.currentLUFS))
  => LET in == lastOp.heap[lastOp.id]
         out == lastOp.ret.heap[lastOp.ret.ret]
         measured == lastOp.ret.currentLUFS
         g == lastOp.ret.clampedGain
     IN /\ g = Clamp(gainLinear(lastOp.target - measured), 100, 100000)
        /\ g >= 100 /\ g <= 100000
        /\ measured > lastOp.target => g < 10000
        /\ measured < lastOp.target => g > 10000
        /\ out.length = in.length
        /\ DOMAIN out.channels = DOMAIN in.channels
        /\ \A ch \in DOMAIN in.channels : \A i \in 1..in.length :
             out.channels[ch][i] = (in.channels[ch][i] * g) \div 10000
        /\ lastOp.ret.heap[lastOp.id] = in

\* a stereo buffer so quiet that the gain is held at 10: the loudness
\* measured again is still below the target, and the output is ten times
\* the input all the same
C21_Witness ==
  /\ lastOp.op = "decodeAudio"
  /\ isFinite(lastOp.ret.currentLUFS)
  /\ Len(lastOp.heap[1].channels) = 2
  /\ lastOp.ret.clampedGain = 100000
  /\ gainLinear(lastOp.target - lastOp.ret.currentLUFS) > 100000
  /\ lastOp.ret.verifyLUFS < lastOp.target
  /\ \E i \in 1..lastOp.heap[1].length :
       /\ lastOp.heap[1].channels[2][i] # 0
       /\ lastOp.ret.heap[lastOp.ret.ret].channels[2][i]
            = 10 * lastOp.heap[1].channels[2][i]

\* ------------------------------------------------------------------- C22
\* the loudness of the mean power of a set of blocks, -Infinity for none
MeanLoudness(buf, blocks) ==
  IF blocks = {} THEN NegInf
  ELSE Loudness(SumOver([s \in blocks |-> BlockPower(buf, s)], blocks)
                \div Cardinality(blocks))
AbsoluteGate(buf) == {s \in BlockStarts(buf) : BlockLUFS(buf, s) > -700}
BothGates(buf) ==
  {s \in AbsoluteGate(buf) :
     BlockLUFS(buf, s) > MeanLoudness(buf, AbsoluteGate(buf)) - 100}

\* C22: for a buffer of at least one block, the loudness measured is the
\* loudness of the mean power of the blocks that pass the absolute gate
\* (above -70 LUFS) and also the relative gate (above the loudness of the
\* absolute-gate survivors' mean power minus 10), and -Infinity when no
\* block passes both.
C22_TwoStageGating ==
  (Normalizing /\ BlockStarts(lastOp.heap[lastOp.id]) # {})
  => lastOp.ret.currentLUFS
       = MeanLoudness(lastOp.heap[lastOp.id], BothGates(lastOp.heap[lastOp.id]))

\* ------------------------------------------------------------------- C23
Range(seq) == {seq[i] : i \in DOMAIN seq}
ListedDbIds == UNION {Range(presets[p].libraryItemDbIds) : p \in DOMAIN presets}

\* C23: a file of an import whose decode failed has no record in the
\* database, no item in libraryItems and no id listed in a preset; every
\* file of the batch that decodes is saved whether or not a file before it
\* failed, and the import ends only when every file has been handled.
C23_FailedDecodeLeavesNoTrace ==
  \A k \in Imports :
    LET task == library.tasks[k]
    IN /\ task.pc = "done" => Len(task.results) = Len(task.files)
       /\ \A j \in 1..Len(task.results) :
            IF task.files[j].decodable
            THEN /\ task.results[j] \in DOMAIN library.db
                 /\ library.db[task.results[j]] = task.files[j].name
            ELSE /\ task.results[j] = Null
                 /\ \A d \in DOMAIN library.db :
                      library.db[d] # task.files[j].name
                 /\ \A n \in DOMAIN library.libraryItems :
                      library.libraryItems[n].name # task.files[j].name
                 /\ \A d \in ListedDbIds :
                      d \in DOMAIN library.db
                      /\ library.db[d] # task.files[j].name

\* an import has ended whose first file did not decode: the second file
\* is in the database, in libraryItems and listed in the active preset
C23_Witness ==
  \E k \in Imports :
    LET task == library.tasks[k]
    IN /\ task.pc = "done"
       /\ ~task.files[1].decodable
       /\ task.files[2].decodable
       /\ library.db = [d \in {1} |-> "b"]
       /\ \E n \in DOMAIN library.libraryItems :
            library.libraryItems[n].name = "b"
       /\ 1 \in Range(presets[activePresetId].libraryItemDbIds)

\* ------------------------------------------------------------------- C29
NoLoadPending == \A k \in Loads : library.tasks[k].pc = "done"

\* C29: when no library load is in flight, every item of libraryItems has
\* a database id listed in the active preset, and no two items have the
\* same database id.
C29_LibraryMatchesPreset ==
  NoLoadPending
  => /\ \A n \in DOMAIN library.libraryItems :
          library.libraryItems[n].dbId
            \in Range(presets[activePresetId].libraryItemDbIds)
     /\ \A n, m \in DOMAIN library.libraryItems :
          library.libraryItems[n].dbId = library.libraryItems[m].dbId
          => n = m

\* ------------------------------------------------------------------- C24
\* C24: after every frame the held peak is at least the frame's peak and
\* the hold counter is within 0..60; a frame above the held peak sets the
\* held peak to its level and the counter to 60; through the next 60
\* frames that do not exceed it the held peak stays at that level; every
\* later frame that does not exceed it lowers it by 0.5 dB, or to the
\* frame's peak when that is higher.
C24_PeakHold ==
  [][/\ meter'.peakRef >= meter'.peakDb
     /\ meter'.peakHoldRef \in 0..60
     /\ meter'.peakDb > meter.peakRef
        => meter'.peakRef = meter'.peakDb /\ meter'.peakHoldRef = 60
     /\ (meter'.peakDb <= meter.peakRef /\ meter.sinceSet # Null)
        => IF meter.sinceSet < 60
           THEN /\ meter'.peakRef = meter.setTo
                /\ meter.peakRef = meter.setTo
           ELSE /\ meter'.peakRef >= Minus(meter.peakRef, 5)
                /\ meter'.peakRef >= meter'.peakDb
                /\ \/ meter'.peakRef = Minus(meter.peakRef, 5)
                   \/ meter'.peakRef = meter'.peakDb]_meter

\* the hold has run out and a frame just below the held peak is drawn:
\* the held peak falls to the frame's peak, by less than 0.5 dB
C24_Witness ==
  /\ meter.sinceSet = 61
  /\ meter.peakHoldRef = 0
  /\ meter.peakRef = meter.peakDb
  /\ meter.peakDb = -31
  /\ meter.setTo = 0

\* ------------------------------------------------------------------- C25
\* C25: for a clock time at or after the reference time and a tempo of
\* 40..240 bpm with 4 beats in the bar, getNextBarTime returns a time at
\* least 50 ms after the clock time that is the reference time plus a
\* positive whole number of bars.
C25_NextBarInFuture ==
  lastOp.op = "getNextBarTime"
  => /\ lastOp.t >= lastOp.st
     /\ lastOp.bpm \in 40..240
     /\ lastOp.ret - lastOp.t >= 50
     /\ \E n \in 1..(MaxBars + 2) :
          (lastOp.ret - lastOp.st) * lastOp.bpm = n * 240000

\* the next bar starts 49 ms after the clock time: the bar after it is
\* returned
C25_Witness ==
  /\ lastOp.op = "getNextBarTime"
  /\ lastOp.st = 1500
  /\ lastOp.bpm = 96
  /\ lastOp.t = 1500 + 2500 - 49
  /\ lastOp.ret = 1500 + 2 * 2500

\* ------------------------------------------------------------------- C26
\* C26: after a drop, a drag, a resize drag or a wheel event every orb of
\* the store has x and y within [0, 1] and a size within [50, 200], and
\* an orb that was just added has size 100.
C26_OrbsInRange ==
  [][/\ \A i \in DOMAIN orbs' :
          /\ orbs'[i].x >= 0 /\ orbs'[i].x <= 10
          /\ orbs'[i].y >= 0 /\ orbs'[i].y <= 10
          /\ orbs'[i].size >= 50 /\ orbs'[i].size <= 200
     /\ Len(orbs') > Len(orbs) => orbs'[Len(orbs')].size = 100]_vars

\* an orb at the left edge and the bottom edge of the field at the
\* largest size
C26_Witness ==
  \E i \in DOMAIN orbs :
    orbs[i].x = 0 /\ orbs[i].y = 10 /\ orbs[i].size = 200

\* ------------------------------------------------------------------- C27
\* C27: after every handler of MixerField and the effects it triggers,
\* the orb ids with a chain in the engine's registry are the ids of the
\* orbs in the store and are the ids in activeOrbsRef.
C27_RegistryMatchesStore ==
  /\ DOMAIN nodesRef = OrbIdsOf(orbs)
  /\ activeOrbsRef = OrbIdsOf(orbs)

\* the first orb has been removed and the second is on the field: the
\* registry and activeOrbsRef hold the second orb's id only
C27_Witness ==
  /\ 1 \in DOMAIN gone
  /\ OrbIdsOf(orbs) = {2}
  /\ DOMAIN nodesRef = {2}
  /\ activeOrbsRef = {2}

\* ------------------------------------------------------------------- C28
\* the orb id is in the store and marked waiting
Waiting(id) == \E i \in DOMAIN orbs : orbs[i].id = id /\ orbs[i].waiting
HasTimer(id) == \E tm \in timers : tm.orb = id

\* C28: an orb that is marked waiting always has a 'clear waiting' timer
\* registered for it, and, timers firing when they are due, it is later
\* marked not waiting or is no longer in the store.
C28_WaitingEnds ==
  \A id \in OrbIds :
    /\ [](Waiting(id) => HasTimer(id))
    /\ Waiting(id) ~> ~Waiting(id)

\* a second orb dropped with quantize on: it is waiting, its start time is
\* in scheduledStartsRef and its timer is pending
C28_Witness ==
  /\ Waiting(2)
  /\ 2 \in DOMAIN scheduledStartsRef
  /\ \E tm \in timers : tm.orb = 2 /\ tm.due = scheduledStartsRef[2]

====
